---------------------------- MODULE Spec2Model ----------------------------
(***************************************************************************)
(* Permit protocol of fogo-ambient: the envelope codec (types.ts, held in  *)
(* src/unnamed/part_002), the envelope builder (builder.ts), the signer    *)
(* (signer.ts) and the exchange adapter (hyperliquid.ts).                  *)
(*                                                                         *)
(* Representation.  A JavaScript value that may be undefined or null is a  *)
(* record [t |-> "undefined"], [t |-> "null"] or [t |-> "val", v |-> x].   *)
(* A PublicKey is a small integer id and KeyBytes gives its 32 bytes.  A   *)
(* bigint / BN is [neg |-> its sign, mag |-> its magnitude as little-endian *)
(* bytes without trailing zeros], so that values of any size are exact; a  *)
(* JavaScript number is an integer.  A Uint8Array / Buffer is a sequence   *)
(* of integers 0..255.  A string that the code inspects character by       *)
(* character is a sequence of one-character strings.                       *)
(***************************************************************************)
EXTENDS Integers, Sequences, FiniteSets, TLC

VARIABLES
    pc,        \* position of the scenario being run
    env,       \* the PermitEnvelopeV1 the caller holds
    bytes,     \* result of the last encodePermitEnvelope
    decoded,   \* result of permitEnvelopeSchema.decode on bytes
    keypair,   \* the Keypair handed to the signer
    permit,    \* the SignedPermit the signer returned (possibly altered since)
    verdict,   \* result of the last PermitSigner.verify
    oracle,    \* Ed25519: the (message, secret key) pairs signed so far
    now,       \* Date.now(), milliseconds
    config,    \* PermitBuilder.config
    call,      \* the last builder constructor call: its name, params, clock readings
    request,   \* the HyperliquidExchangeRequest handed to the adapter
    result,    \* what the last operation returned
    log,       \* every (envelope, bytes) pair an encode has produced so far
    configArg, \* the PermitBuilderConfig the builder was constructed with
    platform,  \* Platform.OS of the running app
    state,     \* useSessionStateContext: the SessionState of the provider
    ambientKeypair,      \* clients.ts: the keypair injected by setAmbientKeypair
    authorization,       \* useMobileWallet: data of the wallet-authorization query
    storage,             \* AsyncStorage: the item "authorization-cache"
    isUserConnectingRef, \* useSessionStateContext: isUserConnectingRef.current
    tasks,     \* the asynchronous operations awaited and not yet settled
    panel,     \* OrderDebugPanel: requestBody, rawResponse, error, isPlacing, wasConnectedRef
    posted,    \* the bodies axios.post has sent to the exchange, in order
    sessions   \* the number of sessions the sessions SDK has issued so far

appVars == <<platform, state, ambientKeypair, authorization, storage,
             isUserConnectingRef, tasks, panel, posted, sessions>>

vars == <<pc, env, bytes, decoded, keypair, permit, verdict, oracle, now,
          config, call, request, result, log, configArg, appVars>>

-----------------------------------------------------------------------------
(* Bounds of the model *)

\* numeric payloads are drawn from Sample(0..MaxSeed, field)
MaxSeed == 1
\* milliseconds the clock may advance between two Date.now() of one call
MaxDrift == 1
\* public keys / keypairs are 1..NumKeys
NumKeys == 2
\* a batch request holds at most MaxItems sub-items
MaxItems == 3

\* how many calls of encodePermitEnvelope the sequence scenario follows
MaxLog == 3

\* the decimal strings converted have at most MaxWhole digits before the point
\* and MaxFraction after it, for at most MaxDecimals decimal places
MaxWhole == 2
MaxFraction == 3
MaxDecimals == 2

\* how many sessions the sessions SDK issues in one run of the app
MaxSessions == 2

-----------------------------------------------------------------------------
(* JavaScript optional values *)

Undefined == [t |-> "undefined"]
Null == [t |-> "null"]
Val(x) == [t |-> "val", v |-> x]
\* a ?? b
Coalesce(a, b) == IF a.t = "val" THEN a ELSE b

\* what a function that may throw gives: its value, or the kind of error
Ok(x) == [ok |-> TRUE, v |-> x]
Throw(kind) == [ok |-> FALSE, err |-> kind]

Abs(x) == IF x < 0 THEN -x ELSE x
Min(a, b) == IF a < b THEN a ELSE b

RECURSIVE LE(_, _)
\* the number v as n little-endian bytes
LE(v, n) == IF n = 0 THEN <<>> ELSE <<v % 256>> \o LE(v \div 256, n - 1)

RECURSIVE FromLE(_)
\* the number held in little-endian bytes
FromLE(b) == IF b = <<>> THEN 0 ELSE Head(b) + 256 * FromLE(Tail(b))

-----------------------------------------------------------------------------
(* bigint and BN values *)

RECURSIVE Strip(_)
\* bytes without their trailing zeros
Strip(b) ==
    IF b = <<>> \/ b[Len(b)] # 0 THEN b ELSE Strip(SubSeq(b, 1, Len(b) - 1))

BigOf(neg, mag) == [neg |-> neg /\ Strip(mag) # <<>>, mag |-> Strip(mag)]

\* BigInt(n) of a number n
Big(n) == BigOf(n < 0, LE(Abs(n), 4))

RECURSIVE MagMulAdd(_, _, _)
\* magnitude * f + carry, for small f and carry
MagMulAdd(mag, f, carry) ==
    IF mag = <<>>
    THEN IF carry = 0 THEN <<>>
         ELSE <<carry % 256>> \o MagMulAdd(<<>>, f, carry \div 256)
    ELSE <<((mag[1] * f) + carry) % 256>>
            \o MagMulAdd(Tail(mag), f, ((mag[1] * f) + carry) \div 256)

RECURSIVE MagSub(_, _)
\* magnitude - k, for a small k not above it
MagSub(mag, k) ==
    IF k = 0 THEN mag
    ELSE IF mag[1] >= (k % 256)
         THEN <<mag[1] - (k % 256)>> \o MagSub(Tail(mag), k \div 256)
         ELSE <<mag[1] + 256 - (k % 256)>>
                 \o MagSub(Tail(mag), (k \div 256) + 1)

\* a + BigInt(k) for a number k >= 0
BigAdd(a, k) ==
    IF ~a.neg THEN BigOf(FALSE, MagMulAdd(a.mag, 1, k))
    ELSE IF Len(a.mag) >= 4 \/ FromLE(a.mag) >= k THEN BigOf(TRUE, MagSub(a.mag, k))
    ELSE Big(k - FromLE(a.mag))

\* -a
BigNeg(a) == BigOf(~a.neg, a.mag)

RECURSIVE MagFromDigits(_, _)
\* the magnitude written by decimal digits (numbers 0..9), after acc
MagFromDigits(digits, acc) ==
    IF digits = <<>> THEN acc
    ELSE IF Len(digits) >= 4
    THEN MagMulAdd(MagFromDigits(SubSeq(digits, 1, Len(digits) - 4), acc), 10000,
                   1000 * digits[Len(digits) - 3] + 100 * digits[Len(digits) - 2]
                     + 10 * digits[Len(digits) - 1] + digits[Len(digits)])
    ELSE MagMulAdd(MagFromDigits(SubSeq(digits, 1, Len(digits) - 1), acc), 10,
                   digits[Len(digits)])

\* magnitude as n bytes, zero-padded
PadTo(mag, n) == mag \o [i \in 1..(n - Len(mag)) |-> 0]

Invert(b) == [i \in 1..Len(b) |-> 255 - b[i]]

\* BN.toTwos(8 * n).toArrayLike(Buffer, "le", n)
TwosBytes(a, n) ==
    IF a.neg THEN SubSeq(MagMulAdd(Invert(PadTo(MagSub(a.mag, 1), n)), 1, 0), 1, n)
    ELSE PadTo(a.mag, n)

\* new BN(bytes, 10, "le").fromTwos(8 * Len(bytes))
FromTwos(b) ==
    IF b[Len(b)] >= 128 THEN BigOf(TRUE, MagMulAdd(Invert(b), 1, 1))
    ELSE BigOf(FALSE, b)

\* a < b for magnitudes
MagLess(a, b) ==
    \/ Len(a) < Len(b)
    \/ /\ Len(a) = Len(b)
       /\ \E i \in 1..Len(a) :
              a[i] < b[i] /\ \A j \in (i + 1)..Len(a) : a[j] = b[j]

\* a < b
BigLess(a, b) ==
    IF a.neg # b.neg THEN a.neg
    ELSE IF a.neg THEN MagLess(b.mag, a.mag) ELSE MagLess(a.mag, b.mag)

-----------------------------------------------------------------------------
(* JavaScript strings and their conversions to and from bigint *)

Digits == <<"0", "1", "2", "3", "4", "5", "6", "7", "8", "9">>
IsDigit(c) == \E d \in 1..10 : Digits[d] = c
DigitValue(c) == (CHOOSE d \in 1..10 : Digits[d] = c) - 1

HexDigits == Digits \o <<"a", "b", "c", "d", "e", "f">>
IsHexDigit(c) == \E d \in 1..16 : HexDigits[d] = c
HexValue(c) == (CHOOSE d \in 1..16 : HexDigits[d] = c) - 1

\* the UTF-8 code of the characters the inputs are written with
CharCode(c) ==
    CASE IsDigit(c) -> 48 + DigitValue(c)
      [] c = " " -> 32
      [] c = "+" -> 43
      [] c = "-" -> 45
      [] c = "." -> 46
      [] c = "a" -> 97
      [] c = "e" -> 101
      [] c = "x" -> 120

Reverse(q) == [i \in 1..Len(q) |-> q[Len(q) + 1 - i]]

RECURSIVE DivBy10000(_, _)
\* quotient and remainder of big-endian bytes by 10000, r carried in
DivBy10000(be, r) ==
    IF be = <<>> THEN [q |-> <<>>, r |-> r]
    ELSE LET rest == DivBy10000(Tail(be), (r * 256 + Head(be)) % 10000)
         IN  [q |-> <<(r * 256 + Head(be)) \div 10000>> \o rest.q, r |-> rest.r]

\* the four decimal digits of a number below 10000
FourDigits(n) ==
    <<Digits[(n \div 1000) + 1], Digits[((n \div 100) % 10) + 1],
      Digits[((n \div 10) % 10) + 1], Digits[(n % 10) + 1]>>

\* the decimal digits of a number in 1..9999
LeadingDigits(n) ==
    SubSeq(FourDigits(n),
           IF n >= 1000 THEN 1 ELSE IF n >= 100 THEN 2 ELSE IF n >= 10 THEN 3 ELSE 4,
           4)

RECURSIVE MagToDigits(_)
\* the decimal digits of a magnitude, four at a time; none for zero
MagToDigits(mag) ==
    IF mag = <<>> THEN <<>>
    ELSE LET d == DivBy10000(Reverse(mag), 0)
         IN  IF Strip(Reverse(d.q)) = <<>> THEN LeadingDigits(d.r)
             ELSE MagToDigits(Strip(Reverse(d.q))) \o FourDigits(d.r)

\* value.toString() of a bigint, and of a number that is an integer
BigToString(a) ==
    IF a.mag = <<>> THEN <<"0">>
    ELSE (IF a.neg THEN <<"-">> ELSE <<>>) \o MagToDigits(a.mag)

RECURSIVE MagFromHex(_, _)
MagFromHex(hex, acc) ==
    IF hex = <<>> THEN acc
    ELSE MagMulAdd(MagFromHex(SubSeq(hex, 1, Len(hex) - 1), acc), 16,
                   HexValue(hex[Len(hex)]))

DigitValues(str) == [i \in 1..Len(str) |-> DigitValue(str[i])]

RECURSIVE TrimStart(_)
TrimStart(str) ==
    IF str # <<>> /\ Head(str) = " " THEN TrimStart(Tail(str)) ELSE str

Trim(str) == Reverse(TrimStart(Reverse(TrimStart(str))))

AllDigits(str) == \A i \in 1..Len(str) : IsDigit(str[i])

\* StringToBigInt of a string without white space around it
TrimmedToBigInt(t) ==
    IF t = <<>> THEN Ok(Big(0))
    ELSE IF Len(t) > 2 /\ t[1] = "0" /\ t[2] = "x"
            /\ \A i \in 3..Len(t) : IsHexDigit(t[i])
    THEN Ok(BigOf(FALSE, MagFromHex(SubSeq(t, 3, Len(t)), <<>>)))
    ELSE IF Head(t) \in {"-", "+"} /\ Len(t) > 1 /\ AllDigits(Tail(t))
    THEN Ok(BigOf(Head(t) = "-", MagFromDigits(DigitValues(Tail(t)), <<>>)))
    ELSE IF AllDigits(t)
    THEN Ok(BigOf(FALSE, MagFromDigits(DigitValues(t), <<>>)))
    ELSE Throw("SyntaxError")

\* BigInt(str) of a string
StringToBigInt(str) == TrimmedToBigInt(Trim(str))

\* a multi-byte bigint for numeric field j of input number n
Sample(n, j) == Big(n * 65537 + j * 257 + n * j)

Keys == 1..NumKeys

\* PublicKey.toBytes(): 32 bytes, distinct keys give distinct bytes
KeyBytes(pk) == [i \in 1..32 |-> IF i = 1 THEN pk ELSE (pk * 7 + i) % 256]
\* new PublicKey(bytes)
KeyFromBytes(b) == b[1]

\* a 32-byte Uint8Array filled from one number (salt, allowance id)
Fill32(x) == [i \in 1..32 |-> (x + i) % 256]

-----------------------------------------------------------------------------
(* Enum discriminants, types.ts *)

KeyType == [Ed25519 |-> 0, Secp256k1 |-> 1]
ClusterType == [Mainnet |-> 0, Testnet |-> 1, Devnet |-> 2, Localnet |-> 3]
ReplayModeType == [Sequence |-> 0, Nonce |-> 1, Allowance |-> 2, HlWindow |-> 3]
PermitActionType ==
    [Place |-> 0, CancelById |-> 1, CancelByClientId |-> 2, CancelAll |-> 3,
     Modify |-> 4, Withdraw |-> 5, SetLeverage |-> 6, Noop |-> 7, Faucet |-> 8]
TimeInForceCode == [IOC |-> 0, FOK |-> 1, GTC |-> 2, ALO |-> 3, GTT |-> 4]
HealthMetric == [Initial |-> 0, Maintenance |-> 1, RatioBps |-> 2]

-----------------------------------------------------------------------------
(* Byte encodings of the borsh layouts the schemas are built from *)

\* layout constructors of @coral-xyz/borsh; p is the property name
u8(p) == [k |-> "u8", p |-> p]
u16(p) == [k |-> "u16", p |-> p]
u64(p) == [k |-> "u64", p |-> p]
i64(p) == [k |-> "i64", p |-> p]
u128(p) == [k |-> "u128", p |-> p]
bool(p) == [k |-> "bool", p |-> p]
publicKey(p) == [k |-> "publicKey", p |-> p]
array(elem, n, p) == [k |-> "array", p |-> p, n |-> n, elem |-> elem]
option(inner, p) == [k |-> "option", p |-> p, inner |-> inner]
struct(fields, p) == [k |-> "struct", p |-> p, fields |-> fields]
rustEnum(variants) == [k |-> "rustEnum", p |-> "", variants |-> variants]
replicate(l, p) == [l EXCEPT !.p = p]

\* the index (1-based) of the variant whose property the source object holds
SourceVariant(l, v) ==
    CHOOSE i \in 1..Len(l.variants) : l.variants[i].p \in DOMAIN v

RECURSIVE LayoutEncode(_, _)
RECURSIVE EncodeFields(_, _, _)
\* Layout.encode(src): the bytes written
LayoutEncode(l, v) ==
    CASE l.k = "u8" -> <<v>>
      [] l.k = "bool" -> <<IF v THEN 1 ELSE 0>>
      [] l.k = "u16" -> LE(v, 2)
      [] l.k = "u64" -> PadTo(v.mag, 8)
      [] l.k = "i64" -> TwosBytes(v, 8)
      [] l.k = "u128" -> PadTo(v.mag, 16)
      [] l.k = "publicKey" -> KeyBytes(v)
      [] l.k = "array" -> v
      [] l.k = "option" ->
            IF v.t = "val" THEN <<1>> \o LayoutEncode(l.inner, v.v) ELSE <<0>>
      [] l.k = "struct" -> EncodeFields(l.fields, v, 1)
      [] l.k = "rustEnum" ->
            LET i == SourceVariant(l, v)
            IN  <<i - 1>> \o LayoutEncode(l.variants[i], v[l.variants[i].p])

\* Structure.encode: the fields in schema order, each read by its property name
EncodeFields(fields, v, i) ==
    IF i > Len(fields) THEN <<>>
    ELSE LayoutEncode(fields[i], v[fields[i].p]) \o EncodeFields(fields, v, i + 1)


RECURSIVE LayoutDecode(_, _, _)
RECURSIVE DecodeFields(_, _, _, _)
\* Layout.decode(b, offset): [v |-> the value read, n |-> the bytes it spans];
\* off is the number of bytes before the value
LayoutDecode(l, b, off) ==
    CASE l.k = "u8" -> [v |-> b[off + 1], n |-> 1]
      [] l.k = "bool" -> [v |-> b[off + 1] = 1, n |-> 1]
      [] l.k = "u16" -> [v |-> FromLE(SubSeq(b, off + 1, off + 2)), n |-> 2]
      [] l.k = "u64" -> [v |-> BigOf(FALSE, SubSeq(b, off + 1, off + 8)), n |-> 8]
      [] l.k = "i64" -> [v |-> FromTwos(SubSeq(b, off + 1, off + 8)), n |-> 8]
      [] l.k = "u128" ->
            [v |-> BigOf(FALSE, SubSeq(b, off + 1, off + 16)), n |-> 16]
      [] l.k = "publicKey" ->
            [v |-> KeyFromBytes(SubSeq(b, off + 1, off + 32)), n |-> 32]
      [] l.k = "array" -> [v |-> SubSeq(b, off + 1, off + l.n), n |-> l.n]
      [] l.k = "option" ->
            IF b[off + 1] = 0 THEN [v |-> Null, n |-> 1]
            ELSE LET d == LayoutDecode(l.inner, b, off + 1)
                 IN  [v |-> Val(d.v), n |-> d.n + 1]
      [] l.k = "struct" -> DecodeFields(l.fields, b, off, Len(l.fields))
      [] l.k = "rustEnum" ->
            LET variant == l.variants[b[off + 1] + 1]
                d == LayoutDecode(variant, b, off + 1)
            IN  [v |-> (variant.p :> d.v), n |-> d.n + 1]

\* Structure.decode: the first i fields, as an object keyed by property name
DecodeFields(fields, b, off, i) ==
    IF i = 0 THEN [v |-> <<>>, n |-> 0]
    ELSE LET before == DecodeFields(fields, b, off, i - 1)
             d == LayoutDecode(fields[i], b, off + before.n)
         IN  [v |-> (fields[i].p :> d.v) @@ before.v, n |-> before.n + d.n]

-----------------------------------------------------------------------------
(* Borsh schemas, types.ts *)

\* the domain with version written before cluster
permitDomainSchema_versionFirst ==
    struct(<<publicKey("programId"), u8("version"), u8("cluster")>>, "")

permitDomainSchema ==
    struct(<<publicKey("programId"), u8("cluster"), u8("version")>>, "")

healthFloorSchema == struct(<<u8("metric"), i64("min")>>, "")

\* the time-in-force variants listed with the builder's default first
tifSchema_reordered ==
    rustEnum(<<struct(<<>>, "GTC"), struct(<<>>, "IOC"), struct(<<>>, "FOK"),
               struct(<<>>, "ALO"), struct(<<u64("timestamp")>>, "GTT")>>)

tifSchema ==
    rustEnum(<<struct(<<>>, "IOC"), struct(<<>>, "FOK"), struct(<<>>, "GTC"),
               struct(<<>>, "ALO"), struct(<<u64("timestamp")>>, "GTT")>>)

replayModeSchema ==
    rustEnum(<<struct(<<u64("expected")>>, "Sequence"),
               struct(<<array(u8(""), 32, "salt")>>, "Nonce"),
               struct(<<array(u8(""), 32, "id")>>, "Allowance"),
               struct(<<u8("k")>>, "HlWindow")>>)

permitActionSchema ==
    rustEnum(<<
        struct(<<u64("marketId"), u128("clientId"), u8("side"), u64("qty"),
                 option(u64(""), "price"), replicate(tifSchema, "tif"),
                 bool("reduceOnly"), option(u64(""), "triggerPrice"),
                 u8("triggerType"), option(healthFloorSchema, "healthFloor")>>,
               "Place"),
        struct(<<u64("marketId"), u64("orderId")>>, "CancelById"),
        struct(<<u64("marketId"), u128("clientId")>>, "CancelByClientId"),
        struct(<<option(u64(""), "marketId")>>, "CancelAll"),
        struct(<<u64("marketId"), u64("cancelOrderId"), u128("newClientId"),
                 u8("side"), u64("qty"), option(u64(""), "price"),
                 replicate(tifSchema, "tif"), bool("reduceOnly"),
                 option(u64(""), "triggerPrice"), u8("triggerType"),
                 option(healthFloorSchema, "healthFloor")>>,
               "Modify"),
        struct(<<u64("amount"), publicKey("toOwner"),
                 option(healthFloorSchema, "healthFloor")>>,
               "Withdraw"),
        struct(<<u64("marketId"), u16("targetLeverageBps"),
                 option(healthFloorSchema, "healthFloor")>>,
               "SetLeverage"),
        struct(<<>>, "Noop"),
        struct(<<u64("marketId"), u64("amount"), publicKey("recipient")>>,
               "Faucet")>>)

permitEnvelopeSchema ==
    struct(<<replicate(permitDomainSchema, "domain"), publicKey("authorizer"),
             u8("keyType"), replicate(permitActionSchema, "action"),
             replicate(replayModeSchema, "mode"), i64("expiresUnix"),
             u64("maxFeeQuote"), option(publicKey(""), "relayer"),
             u64("nonce")>>, "")

-----------------------------------------------------------------------------
(* Conversion of an envelope to the object the schema encodes, types.ts *)

\* new BN(value.toString(), 10)
toBN(value) ==
    LET str == BigToString(value)
        negative == Head(str) = "-"
    IN  BigOf(negative,
              MagFromDigits(DigitValues(IF negative THEN Tail(str) ELSE str), <<>>))

\* a health floor that is never forwarded
toBorshHealthFloor_dropped(floor) == Null

toBorshHealthFloor(floor) ==
    IF floor.t # "val" THEN Null
    ELSE Val([metric |-> floor.v.metric, min |-> toBN(floor.v.min)])

toBorshTif(tif) ==
    CASE tif.type = TimeInForceCode.IOC -> ("IOC" :> <<>>)
      [] tif.type = TimeInForceCode.FOK -> ("FOK" :> <<>>)
      [] tif.type = TimeInForceCode.GTC -> ("GTC" :> <<>>)
      [] tif.type = TimeInForceCode.ALO -> ("ALO" :> <<>>)
      [] tif.type = TimeInForceCode.GTT ->
            ("GTT" :> [timestamp |-> toBN(tif.timestamp)])

\* action.price !== null ? toBN(action.price) : null
toBorshNullable(x) == IF x.t # "null" THEN Val(toBN(x.v)) ELSE Null

\* action.marketId !== undefined ? toBN(action.marketId) : null
toBorshOptional(x) == IF x.t # "undefined" THEN Val(toBN(x.v)) ELSE Null

toBorshOrder(action) ==
    [side |-> action.side,
     qty |-> toBN(action.qty),
     price |-> toBorshNullable(action.price),
     tif |-> toBorshTif(action.tif),
     reduceOnly |-> action.reduceOnly,
     triggerPrice |-> toBorshNullable(action.triggerPrice),
     triggerType |-> action.triggerType,
     healthFloor |-> toBorshHealthFloor(action.healthFloor)]

toBorshAction(action) ==
    CASE action.type = PermitActionType.Place ->
            ("Place" :> ([marketId |-> toBN(action.marketId),
                          clientId |-> toBN(action.clientId)]
                         @@ toBorshOrder(action)))
      [] action.type = PermitActionType.CancelById ->
            ("CancelById" :> [marketId |-> toBN(action.marketId),
                              orderId |-> toBN(action.orderId)])
      [] action.type = PermitActionType.CancelByClientId ->
            ("CancelByClientId" :> [marketId |-> toBN(action.marketId),
                                    clientId |-> toBN(action.clientId)])
      [] action.type = PermitActionType.CancelAll ->
            ("CancelAll" :> [marketId |-> toBorshOptional(action.marketId)])
      [] action.type = PermitActionType.Modify ->
            ("Modify" :> ([marketId |-> toBN(action.marketId),
                           cancelOrderId |-> toBN(action.cancelOrderId),
                           newClientId |-> toBN(action.newClientId)]
                          @@ toBorshOrder(action)))
      [] action.type = PermitActionType.Withdraw ->
            ("Withdraw" :> [amount |-> toBN(action.amount),
                            toOwner |-> action.toOwner,
                            healthFloor |-> toBorshHealthFloor(action.healthFloor)])
      [] action.type = PermitActionType.Faucet ->
            ("Faucet" :> [marketId |-> toBN(action.marketId),
                          amount |-> toBN(action.amount),
                          recipient |-> action.recipient])
      [] action.type = PermitActionType.SetLeverage ->
            ("SetLeverage" :> [marketId |-> toBN(action.marketId),
                               targetLeverageBps |-> action.targetLeverageBps,
                               healthFloor |-> toBorshHealthFloor(action.healthFloor)])
      [] action.type = PermitActionType.Noop -> ("Noop" :> <<>>)

toBorshReplayMode(mode) ==
    CASE mode.type = ReplayModeType.Sequence ->
            ("Sequence" :> [expected |-> toBN(mode.expected)])
      [] mode.type = ReplayModeType.Nonce -> ("Nonce" :> [salt |-> mode.salt])
      [] mode.type = ReplayModeType.Allowance -> ("Allowance" :> [id |-> mode.id])
      [] mode.type = ReplayModeType.HlWindow -> ("HlWindow" :> [k |-> mode.k])

\* the object `serializable` of encodePermitEnvelope
Serializable(envelope) ==
    [domain |-> [programId |-> envelope.domain.programId,
                 cluster |-> envelope.domain.cluster,
                 version |-> envelope.domain.version],
     authorizer |-> envelope.authorizer,
     keyType |-> envelope.keyType,
     action |-> toBorshAction(envelope.action),
     mode |-> toBorshReplayMode(envelope.mode),
     expiresUnix |-> toBN(envelope.expiresUnix),
     maxFeeQuote |-> toBN(envelope.maxFeeQuote),
     relayer |-> Coalesce(envelope.relayer, Null),
     nonce |-> toBN(envelope.nonce)]

\* Buffer.alloc(512); schema.encode(serializable, buffer); buffer.slice(0, length)
\* an encoder that is not a function of its argument: the version byte is
\* the clock's reading
encodePermitEnvelope_clocked(envelope) ==
    LayoutEncode(permitEnvelopeSchema,
                 Serializable([envelope EXCEPT !.domain.version = now]))

encodePermitEnvelope(envelope) ==
    LayoutEncode(permitEnvelopeSchema, Serializable(envelope))

RECURSIVE LayoutFits(_, _)
RECURSIVE FieldsFit(_, _, _)
\* whether Layout.encode writes the value: UInt.encode is
\* Buffer.writeUIntLE, which throws for a value outside 0..256^span - 1;
\* BNLayout.encode is BN.toArrayLike(Buffer, "le", span), which throws when
\* the magnitude needs more than span bytes (after toTwos(64) for i64, which
\* keeps a non-negative value as it is and for a negative one clears bits
\* 64..77 of the complement)
LayoutFits(l, v) ==
    CASE l.k = "u8" -> v \in 0..255
      [] l.k = "u16" -> v \in 0..65535
      [] l.k = "u64" -> Len(v.mag) <= 8
      [] l.k = "i64" ->
            IF ~v.neg THEN Len(v.mag) <= 8
            ELSE /\ Len(v.mag) <= 9 \/ (Len(v.mag) = 10 /\ v.mag[10] < 64)
                 /\ \E i \in 1..Min(8, Len(v.mag)) : v.mag[i] # 0
      [] l.k = "u128" -> Len(v.mag) <= 16
      [] l.k = "option" -> v.t # "val" \/ LayoutFits(l.inner, v.v)
      [] l.k = "struct" -> FieldsFit(l.fields, v, 1)
      [] l.k = "rustEnum" ->
            LayoutFits(l.variants[SourceVariant(l, v)],
                       v[l.variants[SourceVariant(l, v)].p])
      [] OTHER -> TRUE

\* Structure.encode reaches the end without a throw of a field's layout
FieldsFit(fields, v, i) ==
    \/ i > Len(fields)
    \/ LayoutFits(fields[i], v[fields[i].p]) /\ FieldsFit(fields, v, i + 1)

\* an encoder whose layouts write whatever bytes the value gives
EncodeOutcome_unchecked(envelope) == Ok(encodePermitEnvelope(envelope))

\* a call of encodePermitEnvelope: the bytes returned, or the throw of the
\* first layout that cannot hold its value
EncodeOutcome(envelope) ==
    IF LayoutFits(permitEnvelopeSchema, Serializable(envelope))
    THEN Ok(encodePermitEnvelope(envelope))
    ELSE Throw("out of range")

\* permitEnvelopeSchema.decode(bytes), the only decoding the codec has
schemaDecode(b) == LayoutDecode(permitEnvelopeSchema, b, 0).v

-----------------------------------------------------------------------------
(* The envelopes the scenarios draw: every action variant, replay mode and *)
(* time-in-force, each optional field present and absent                   *)

Seeds == 0..MaxSeed
KeyOf(n) == (n % NumKeys) + 1

\* which optional parts of an order (Place, Modify) are present, and its tif
OrderShapes == [price : BOOLEAN, tif : 0..4, trig : BOOLEAN, hf : BOOLEAN]

TifOf(n, code) ==
    IF code = TimeInForceCode.GTT
    THEN [type |-> code, timestamp |-> Sample(n, 11)]
    ELSE [type |-> code]

HealthFloorOf(n, present) ==
    IF present
    THEN Val([metric |-> n % 3,
              min |-> IF n % 2 = 0 THEN BigNeg(Sample(n, 12)) ELSE Sample(n, 12)])
    ELSE Undefined

OrderFieldsOf(n, s) ==
    [side |-> (n + s.tif) % 2,
     qty |-> Sample(n, 3),
     price |-> IF s.price THEN Val(Sample(n, 4)) ELSE Null,
     tif |-> TifOf(n, s.tif),
     reduceOnly |-> (s.price # s.trig),
     triggerPrice |-> IF s.trig THEN Val(Sample(n, 5)) ELSE Null,
     triggerType |-> (n + 2) % 3,
     healthFloor |-> HealthFloorOf(n, s.hf)]

ActionOf(n, type, s) ==
    CASE type = PermitActionType.Place ->
            [type |-> type, marketId |-> Sample(n, 1), clientId |-> Sample(n, 2)]
            @@ OrderFieldsOf(n, s)
      [] type = PermitActionType.CancelById ->
            [type |-> type, marketId |-> Sample(n, 1), orderId |-> Sample(n, 6)]
      [] type = PermitActionType.CancelByClientId ->
            [type |-> type, marketId |-> Sample(n, 1), clientId |-> Sample(n, 2)]
      [] type = PermitActionType.CancelAll ->
            [type |-> type,
             marketId |-> IF s.price THEN Val(Sample(n, 1)) ELSE Undefined]
      [] type = PermitActionType.Modify ->
            [type |-> type, marketId |-> Sample(n, 1),
             cancelOrderId |-> Sample(n, 6), newClientId |-> Sample(n, 2)]
            @@ OrderFieldsOf(n, s)
      [] type = PermitActionType.Withdraw ->
            [type |-> type, amount |-> Sample(n, 7), toOwner |-> KeyOf(n + 1),
             healthFloor |-> HealthFloorOf(n, s.hf)]
      [] type = PermitActionType.SetLeverage ->
            [type |-> type, marketId |-> Sample(n, 1),
             targetLeverageBps |-> 500 + 300 * n,
             healthFloor |-> HealthFloorOf(n, s.hf)]
      [] type = PermitActionType.Noop -> [type |-> type]
      [] type = PermitActionType.Faucet ->
            [type |-> type, marketId |-> Sample(n, 1), amount |-> Sample(n, 7),
             recipient |-> KeyOf(n + 1)]

ModeOf(n, type) ==
    CASE type = ReplayModeType.Sequence -> [type |-> type, expected |-> Sample(n, 8)]
      [] type = ReplayModeType.Nonce -> [type |-> type, salt |-> Fill32(n + 40)]
      [] type = ReplayModeType.Allowance -> [type |-> type, id |-> Fill32(n + 90)]
      [] type = ReplayModeType.HlWindow -> [type |-> type, k |-> 128 - n]

EnvelopeOf(n, actionType, s, modeType, withRelayer) ==
    [domain |-> [programId |-> KeyOf(n), version |-> 1,
                 cluster |-> (n + modeType) % 4],
     authorizer |-> KeyOf(n + 1),
     keyType |-> KeyType.Ed25519,
     action |-> ActionOf(n, actionType, s),
     mode |-> ModeOf(n, modeType),
     expiresUnix |-> Sample(n, 9),
     maxFeeQuote |-> Sample(n, 10),
     relayer |-> IF withRelayer THEN Val(KeyOf(n)) ELSE Undefined,
     nonce |-> Sample(n, 13)]

-----------------------------------------------------------------------------
(* Codec scenario: a caller encodes an envelope and runs the schema's      *)
(* decode on the bytes                                                     *)

None == <<>>

\* the app is not running
AppIdle ==
    /\ platform = None /\ state = None /\ ambientKeypair = None
    /\ authorization = None /\ storage = None /\ isUserConnectingRef = FALSE
    /\ tasks = {} /\ panel = None /\ posted = <<>> /\ sessions = 0

InitIdle ==
    /\ AppIdle
    /\ bytes = None /\ decoded = None /\ keypair = 0 /\ permit = None
    /\ verdict = None /\ oracle = <<>> /\ now = 0 /\ config = None
    /\ call = None /\ request = None /\ result = None /\ log = {}
    /\ configArg = None

Init ==
    /\ pc = "start"
    /\ \E n \in Seeds, a \in 0..8, s \in OrderShapes, m \in 0..3, r \in BOOLEAN :
          env = EnvelopeOf(n, a, s, m, r)
    /\ InitIdle

\* PermitBuilder.serialize / encodePermitEnvelope
Encode ==
    /\ pc = "start"
    /\ bytes' = encodePermitEnvelope(env)
    /\ pc' = "encoded"
    /\ UNCHANGED <<appVars, env, decoded, keypair, permit, verdict, oracle, now, config,
                   call, request, result, log, configArg>>

\* permitEnvelopeSchema.decode
Decode ==
    /\ pc = "encoded"
    /\ decoded' = schemaDecode(bytes)
    /\ pc' = "decoded"
    /\ UNCHANGED <<appVars, env, bytes, keypair, permit, verdict, oracle, now, config,
                   call, request, result, log, configArg>>

Next == Encode \/ Decode

Spec == Init /\ [][Next]_vars

-----------------------------------------------------------------------------
(* Ed25519 (tweetnacl) as an ideal signature scheme: signing is            *)
(* deterministic, and a signature verifies for a message and a public key  *)
(* exactly when it was made for that message with that key's secret key.   *)
(* oracle lists the (message, secret key) pairs signed so far; the i-th    *)
(* pair's signature is SignatureBytes(i).                                  *)

Keypair(k) == [publicKey |-> k, secretKey |-> <<"secret", k>>]

SignatureBytes(i) == [j \in 1..64 |-> (i * 37 + j * 3) % 256]

OraclePosition(orc, message, secretKey) ==
    IF \E i \in 1..Len(orc) : orc[i] = [message |-> message, secretKey |-> secretKey]
    THEN CHOOSE i \in 1..Len(orc) :
            orc[i] = [message |-> message, secretKey |-> secretKey]
    ELSE Len(orc) + 1

\* the oracle after nacl.sign.detached(message, secretKey)
naclSigned(orc, message, secretKey) ==
    IF OraclePosition(orc, message, secretKey) <= Len(orc) THEN orc
    ELSE Append(orc, [message |-> message, secretKey |-> secretKey])

\* nacl.sign.detached(message, secretKey)
naclSignDetached(orc, message, secretKey) ==
    SignatureBytes(OraclePosition(orc, message, secretKey))

\* nacl.sign.detached.verify(message, signature, publicKeyBytes)
naclVerify(orc, message, signature, publicKeyBytes) ==
    \E i \in 1..Len(orc) :
        /\ SignatureBytes(i) = signature
        /\ orc[i].message = message
        /\ orc[i].secretKey = Keypair(KeyFromBytes(publicKeyBytes)).secretKey

-----------------------------------------------------------------------------
(* Signer, signer.ts.  An operation returns [ret |-> its result, arg |->   *)
(* the envelope object it was given, as it is after the call, oracle |->   *)
(* the signatures made so far]                                             *)

\* Buffer.set / writeUInt16LE: bytes written into buf after the first off bytes
WriteAt(buf, off, b) ==
    [i \in 1..Len(buf) |->
        IF off < i /\ i <= off + Len(b) THEN b[i - off] ELSE buf[i]]

\* Buffer.alloc(n)
BufferAlloc(n) == [i \in 1..n |-> 0]

\* the instruction with Solana's own header: a padding byte after the count
createEd25519Instruction_paddingFirst(signature, pubkey, message) ==
    LET b0 == WriteAt(BufferAlloc(16 + 64 + 32 + Len(message)), 0, <<1>>)
        b1 == WriteAt(b0, 2, LE(16, 2))
        b2 == WriteAt(b1, 4, LE(0, 2))
        b3 == WriteAt(b2, 6, LE(16 + 64, 2))
        b4 == WriteAt(b3, 8, LE(0, 2))
        b5 == WriteAt(b4, 10, LE(16 + 64 + 32, 2))
        b6 == WriteAt(b5, 12, LE(Len(message), 2))
        b7 == WriteAt(b6, 14, LE(0, 2))
        b8 == WriteAt(b7, 16, signature)
        b9 == WriteAt(b8, 16 + 64, KeyBytes(pubkey))
    IN  [keys |-> <<>>, programId |-> "Ed25519Program",
         data |-> WriteAt(b9, 16 + 64 + 32, message)]

createEd25519Instruction(signature, pubkey, message) ==
    LET SIGNATURE_OFFSET == 16
        PUBKEY_OFFSET == SIGNATURE_OFFSET + 64
        MESSAGE_OFFSET == PUBKEY_OFFSET + 32
        b0 == WriteAt(BufferAlloc(16 + 64 + 32 + Len(message)), 0, <<1>>)
        b1 == WriteAt(b0, 1, LE(SIGNATURE_OFFSET, 2))
        b2 == WriteAt(b1, 3, LE(0, 2))
        b3 == WriteAt(b2, 5, LE(PUBKEY_OFFSET, 2))
        b4 == WriteAt(b3, 7, LE(0, 2))
        b5 == WriteAt(b4, 9, LE(MESSAGE_OFFSET, 2))
        b6 == WriteAt(b5, 11, LE(Len(message), 2))
        b7 == WriteAt(b6, 13, LE(0, 2))
        b8 == WriteAt(b7, SIGNATURE_OFFSET, signature)
        b9 == WriteAt(b8, PUBKEY_OFFSET, KeyBytes(pubkey))
    IN  [keys |-> <<>>, programId |-> "Ed25519Program",
         data |-> WriteAt(b9, MESSAGE_OFFSET, message)]

\* generatePermitSignature once the envelope is encoded as message
PermitSignatureOf(orc, message, kp) ==
    [message |-> message,
     signature |-> naclSignDetached(orc, message, kp.secretKey),
     publicKey |-> kp.publicKey,
     oracle |-> naclSigned(orc, message, kp.secretKey)]

generatePermitSignature(orc, envelope, kp) ==
    PermitSignatureOf(orc, encodePermitEnvelope(envelope), kp)

\* PermitSigner.sign once generatePermitSignature has returned g
SignedPermitOf(envelope, kp, g) ==
    [ret |-> [envelope |-> envelope,
              signature |-> g.signature,
              publicKey |-> kp.publicKey,
              verifyInstruction |->
                  createEd25519Instruction(g.signature, kp.publicKey, g.message)],
     arg |-> envelope,
     oracle |-> g.oracle]

\* PermitSigner.sign
sign(orc, envelope, kp) ==
    SignedPermitOf(envelope, kp, generatePermitSignature(orc, envelope, kp))

\* signing with the session key without making it the authorizer
signWithSession_keepsAuthorizer(orc, envelope, sessionKeypair) ==
    sign(orc, envelope, sessionKeypair)

\* what signWithSession returns, s being what its call of sign returned
SessionPermitOf(envelope, s) == [ret |-> s.ret, arg |-> envelope, oracle |-> s.oracle]

\* PermitSigner.signWithSession
signWithSession(orc, envelope, sessionKeypair) ==
    SessionPermitOf(envelope,
                    sign(orc,
                         [envelope EXCEPT !.authorizer = sessionKeypair.publicKey],
                         sessionKeypair))

\* a verify that checks the message embedded in the instruction
verify_embeddedMessage(orc, signedPermit) ==
    naclVerify(orc,
               SubSeq(signedPermit.verifyInstruction.data, 113,
                      Len(signedPermit.verifyInstruction.data)),
               signedPermit.signature, KeyBytes(signedPermit.publicKey))

\* PermitSigner.verify; builder.serialize is encodePermitEnvelope
verify(orc, signedPermit) ==
    LET messageBytes == encodePermitEnvelope(signedPermit.envelope)
    IN  naclVerify(orc, messageBytes, signedPermit.signature,
                   KeyBytes(signedPermit.publicKey))

-----------------------------------------------------------------------------
(* Signer scenario: an envelope is signed (directly or with a session      *)
(* key), somebody may replace the permit's envelope, and the permit is     *)
(* verified                                                                *)

\* envelopes a holder of a signed permit may put in place of its envelope;
\* the last one differs from e as an object but not in its encoding
Replacements(e) ==
    {[e EXCEPT !.nonce = BigAdd(@, 1)],
     [e EXCEPT !.expiresUnix = BigAdd(@, 256)],
     [e EXCEPT !.authorizer = KeyOf(@)],
     [e EXCEPT !.domain.cluster = (@ + 1) % 4],
     [e EXCEPT !.action = IF @.type = PermitActionType.Noop
                          THEN [type |-> PermitActionType.CancelAll,
                                marketId |-> Undefined]
                          ELSE [type |-> PermitActionType.Noop]],
     [e EXCEPT !.relayer = IF @.t = "val" THEN Undefined ELSE Null]}

\* the shape of the orders the signer scenario draws
SignShape(n) == [price |-> n % 2 = 0, tif |-> (2 + 2 * n) % 5,
                 trig |-> n % 2 = 1, hf |-> n % 2 = 0]

InitSign ==
    /\ AppIdle
    /\ pc = "start"
    /\ \E n \in Seeds, a \in 0..8, m \in {0, 3}, r \in BOOLEAN :
          env = EnvelopeOf(n, a, SignShape(n), m, r)
    /\ keypair \in {Keypair(k) : k \in Keys}
    /\ bytes = None /\ decoded = None /\ permit = None
    /\ verdict = None /\ oracle = <<>> /\ now = 0 /\ config = None
    /\ call = None /\ request = None /\ result = None /\ log = {}
    /\ configArg = None

\* the caller takes what a signing operation returned
Returned(r) ==
    /\ permit' = r.ret /\ result' = r.ret /\ env' = r.arg
    /\ oracle' = r.oracle

Sign ==
    /\ pc = "start"
    /\ Returned(sign(oracle, env, keypair))
    /\ call' = [op |-> "sign", envelope |-> env]
    /\ pc' = "signed"
    /\ UNCHANGED <<appVars, bytes, decoded, keypair, verdict, now, config, request, log, configArg>>

SignWithSession ==
    /\ pc = "start"
    /\ Returned(signWithSession(oracle, env, keypair))
    /\ call' = [op |-> "signWithSession", envelope |-> env]
    /\ pc' = "signed"
    /\ UNCHANGED <<appVars, bytes, decoded, keypair, verdict, now, config, request, log, configArg>>

\* the holder replaces the envelope; signature and public key are kept
Tamper ==
    /\ pc = "signed"
    /\ \E e \in Replacements(permit.envelope) :
          permit' = [permit EXCEPT !.envelope = e]
    /\ pc' = "tampered"
    /\ UNCHANGED <<appVars, env, bytes, decoded, keypair, verdict, oracle, now, config,
                   call, request, result, log, configArg>>

\* the signer also signs the replacement: a second valid signature exists
SignReplacement ==
    /\ pc = "tampered"
    /\ oracle' = sign(oracle, permit.envelope, keypair).oracle
    /\ pc' = "tamperedAndSigned"
    /\ UNCHANGED <<appVars, env, bytes, decoded, keypair, permit, verdict, now, config,
                   call, request, result, log, configArg>>

Verify ==
    /\ pc \in {"signed", "tampered", "tamperedAndSigned"}
    /\ verdict' = verify(oracle, permit)
    /\ pc' = IF pc = "signed" THEN "verified" ELSE "verifiedTampered"
    /\ UNCHANGED <<appVars, env, bytes, decoded, keypair, permit, oracle, now, config,
                   call, request, result, log, configArg>>

NextSign == Sign \/ SignWithSession \/ Tamper \/ SignReplacement \/ Verify

SpecSign == InitSign /\ [][NextSign]_vars

-----------------------------------------------------------------------------
(* Envelope builder, builder.ts *)

\* new PermitBuilder(config)
PermitBuilderConstructor(cfg) ==
    [programId |-> cfg.programId,
     cluster |-> Coalesce(cfg.cluster, Val(ClusterType.Testnet)).v,
     defaultExpiry |-> Coalesce(cfg.defaultExpiry, Val(60)).v,
     defaultMaxFee |-> Coalesce(cfg.defaultMaxFee, Val(Big(1000000))).v]

\* generateNonce(): BigInt(Date.now()), the clock reading t
generateNonce(t) == Big(t)

\* buildEnvelope with || in place of ??: a nonce or expiresIn of 0 is replaced
buildEnvelope_falsyDefaults(cfg, params, t1, t2) ==
    LET nowSeconds == t1 \div 1000
        expiresIn == IF params.expiresIn.t = "val" /\ params.expiresIn.v # 0
                     THEN params.expiresIn.v ELSE cfg.defaultExpiry
    IN  [domain |-> [programId |-> cfg.programId, version |-> 1,
                     cluster |-> cfg.cluster],
         authorizer |-> params.authorizer,
         keyType |-> KeyType.Ed25519,
         action |-> params.action,
         mode |-> Coalesce(params.replayMode,
                           Val([type |-> ReplayModeType.HlWindow, k |-> 128])).v,
         expiresUnix |-> Big(nowSeconds + expiresIn),
         maxFeeQuote |-> cfg.defaultMaxFee,
         relayer |-> params.relayer,
         nonce |-> IF params.nonce.t = "val" /\ params.nonce.v # Big(0)
                   THEN params.nonce.v ELSE Big(t2)]

\* buildEnvelope; t1 is Date.now() as read for `now`, t2 as read by generateNonce
buildEnvelope(cfg, params, t1, t2) ==
    LET nowSeconds == t1 \div 1000
        expiresIn == Coalesce(params.expiresIn, Val(cfg.defaultExpiry)).v
    IN  [domain |-> [programId |-> cfg.programId, version |-> 1,
                     cluster |-> cfg.cluster],
         authorizer |-> params.authorizer,
         keyType |-> KeyType.Ed25519,
         action |-> params.action,
         mode |-> Coalesce(params.replayMode,
                           Val([type |-> ReplayModeType.HlWindow, k |-> 128])).v,
         expiresUnix |-> Big(nowSeconds + expiresIn),
         maxFeeQuote |-> cfg.defaultMaxFee,
         relayer |-> params.relayer,
         nonce |-> Coalesce(params.nonce, Val(generateNonce(t2))).v]

\* the object every constructor hands to buildEnvelope: authorizer, action,
\* nonce, expiresIn and relayer; no constructor passes a replayMode on
EnvelopeParams(params, action) ==
    [authorizer |-> params.authorizer,
     action |-> action,
     nonce |-> params.nonce,
     expiresIn |-> params.expiresIn,
     relayer |-> params.relayer,
     replayMode |-> Undefined]

\* the action fields placeOrder and modify fill in the same way
orderDefaults(params) ==
    [side |-> IF params.side = "bid" THEN 0 ELSE 1,
     qty |-> params.qty,
     price |-> Coalesce(params.price, Null),
     tif |-> Coalesce(params.tif, Val([type |-> TimeInForceCode.GTC])).v,
     reduceOnly |-> Coalesce(params.reduceOnly, Val(FALSE)).v,
     triggerPrice |-> Coalesce(params.triggerPrice, Null),
     triggerType |-> Coalesce(params.triggerType, Val(0)).v,
     healthFloor |-> params.healthFloor]

placeOrder(cfg, params, t1, t2) ==
    buildEnvelope(cfg, EnvelopeParams(params,
        [type |-> PermitActionType.Place, marketId |-> params.marketId,
         clientId |-> params.clientId] @@ orderDefaults(params)), t1, t2)

modify(cfg, params, t1, t2) ==
    buildEnvelope(cfg, EnvelopeParams(params,
        [type |-> PermitActionType.Modify, marketId |-> params.marketId,
         cancelOrderId |-> params.cancelOrderId,
         newClientId |-> params.newClientId] @@ orderDefaults(params)), t1, t2)

cancelById(cfg, params, t1, t2) ==
    buildEnvelope(cfg, EnvelopeParams(params,
        [type |-> PermitActionType.CancelById, marketId |-> params.marketId,
         orderId |-> params.orderId]), t1, t2)

cancelByClientId(cfg, params, t1, t2) ==
    buildEnvelope(cfg, EnvelopeParams(params,
        [type |-> PermitActionType.CancelByClientId, marketId |-> params.marketId,
         clientId |-> params.clientId]), t1, t2)

cancelAll(cfg, params, t1, t2) ==
    buildEnvelope(cfg, EnvelopeParams(params,
        [type |-> PermitActionType.CancelAll, marketId |-> params.marketId]),
        t1, t2)

withdraw(cfg, params, t1, t2) ==
    buildEnvelope(cfg, EnvelopeParams(params,
        [type |-> PermitActionType.Withdraw, amount |-> params.amount,
         toOwner |-> params.toOwner, healthFloor |-> params.healthFloor]), t1, t2)

setLeverage(cfg, params, t1, t2) ==
    buildEnvelope(cfg, EnvelopeParams(params,
        [type |-> PermitActionType.SetLeverage, marketId |-> params.marketId,
         targetLeverageBps |-> params.targetLeverageBps,
         healthFloor |-> params.healthFloor]), t1, t2)

faucet(cfg, params, t1, t2) ==
    buildEnvelope(cfg, EnvelopeParams(params,
        [type |-> PermitActionType.Faucet, marketId |-> params.marketId,
         amount |-> params.amount, recipient |-> params.recipient]), t1, t2)

noop(cfg, params, t1, t2) ==
    buildEnvelope(cfg, EnvelopeParams(params, [type |-> PermitActionType.Noop]),
                  t1, t2)

-----------------------------------------------------------------------------
(* Builder scenario: constructors are called on one builder as the clock   *)
(* advances                                                                *)

\* the clock readings of the scenario, in order
Times == <<999, 1000, 61999>>

ConfigArgs ==
    {[programId |-> KeyOf(IF c.t = "val" THEN 1 ELSE 0), cluster |-> c,
      defaultExpiry |-> x,
      defaultMaxFee |-> IF c.t = "val" THEN Undefined ELSE Val(Big(5000))] :
        c \in {Undefined, Val(ClusterType.Devnet)},
        x \in {Undefined, Val(0), Val(30)}}

\* what a caller may pass besides the action's own fields
CommonParams ==
    [authorizer : {KeyOf(1)},
     nonce : {Undefined, Val(Big(0)), Val(Big(7))},
     expiresIn : {Undefined, Val(0), Val(90)},
     relayer : {Undefined, Val(1)},
     replayMode : {Undefined,
                   Val([type |-> ReplayModeType.Sequence, expected |-> Big(5)])}]

\* the action's own fields for input number n; even n leaves the optional
\* ones out
OrderParams(n) ==
    [side |-> IF n % 2 = 0 THEN "bid" ELSE "ask",
     qty |-> Sample(n, 3),
     price |-> IF n % 2 = 0 THEN Undefined ELSE Val(Sample(n, 4)),
     tif |-> IF n % 2 = 0 THEN Undefined ELSE Val(TifOf(n, n % 5)),
     reduceOnly |-> IF n % 2 = 0 THEN Undefined ELSE Val(TRUE),
     triggerPrice |-> IF n % 2 = 0 THEN Undefined ELSE Val(Sample(n, 5)),
     triggerType |-> IF n % 2 = 0 THEN Undefined ELSE Val(2),
     healthFloor |-> HealthFloorOf(n, n % 2 = 1)]

OwnParams(op, n) ==
    CASE op = "placeOrder" ->
            [marketId |-> Sample(n, 1), clientId |-> Sample(n, 2)] @@ OrderParams(n)
      [] op = "modify" ->
            [marketId |-> Sample(n, 1), cancelOrderId |-> Sample(n, 6),
             newClientId |-> Sample(n, 2)] @@ OrderParams(n)
      [] op = "cancelById" -> [marketId |-> Sample(n, 1), orderId |-> Sample(n, 6)]
      [] op = "cancelByClientId" ->
            [marketId |-> Sample(n, 1), clientId |-> Sample(n, 2)]
      [] op = "cancelAll" ->
            [marketId |-> IF n % 2 = 0 THEN Undefined ELSE Val(Sample(n, 1))]
      [] op = "withdraw" ->
            [amount |-> Sample(n, 7), toOwner |-> KeyOf(n),
             healthFloor |-> HealthFloorOf(n, n % 2 = 1)]
      [] op = "setLeverage" ->
            [marketId |-> Sample(n, 1), targetLeverageBps |-> 500 + 300 * n,
             healthFloor |-> HealthFloorOf(n, n % 2 = 1)]
      [] op = "faucet" ->
            [marketId |-> Sample(n, 1), amount |-> Sample(n, 7),
             recipient |-> KeyOf(n)]
      [] op = "noop" -> <<>>

InitBuild ==
    /\ AppIdle
    /\ pc = "ready"
    /\ configArg \in ConfigArgs
    /\ config = PermitBuilderConstructor(configArg)
    /\ now = 1
    /\ env = None /\ bytes = None /\ decoded = None /\ keypair = 0
    /\ permit = None /\ verdict = None /\ oracle = <<>>
    /\ call = None /\ request = None /\ result = None /\ log = {}

\* the wall clock moves on to its next reading
Tick ==
    /\ pc = "ready"
    /\ now < Len(Times)
    /\ now' = now + 1
    /\ UNCHANGED <<appVars, pc, env, bytes, decoded, keypair, permit, verdict, oracle,
                   config, call, request, result, log, configArg>>

\* one constructor call: the caller's params, the two clock readings, the
\* envelope returned
Called(op, params, t1, t2, envelope) ==
    /\ pc = "ready"
    /\ call' = [op |-> op, params |-> params, t1 |-> t1, t2 |-> t2]
    /\ result' = envelope
    /\ pc' = "built"
    /\ UNCHANGED <<appVars, env, bytes, decoded, keypair, permit, verdict, oracle, now,
                   config, request, log, configArg>>

PlaceOrder ==
    \E c \in CommonParams, n \in Seeds, d \in 0..MaxDrift :
        LET params == c @@ OwnParams("placeOrder", n)
            t == Times[now]
        IN  Called("placeOrder", params, t, t + d,
                   placeOrder(config, params, t, t + d))

Modify ==
    \E c \in CommonParams, n \in Seeds, d \in 0..MaxDrift :
        LET params == c @@ OwnParams("modify", n)
            t == Times[now]
        IN  Called("modify", params, t, t + d, modify(config, params, t, t + d))

CancelById ==
    \E c \in CommonParams, n \in Seeds, d \in 0..MaxDrift :
        LET params == c @@ OwnParams("cancelById", n)
            t == Times[now]
        IN  Called("cancelById", params, t, t + d,
                   cancelById(config, params, t, t + d))

CancelByClientId ==
    \E c \in CommonParams, n \in Seeds, d \in 0..MaxDrift :
        LET params == c @@ OwnParams("cancelByClientId", n)
            t == Times[now]
        IN  Called("cancelByClientId", params, t, t + d,
                   cancelByClientId(config, params, t, t + d))

CancelAll ==
    \E c \in CommonParams, n \in Seeds, d \in 0..MaxDrift :
        LET params == c @@ OwnParams("cancelAll", n)
            t == Times[now]
        IN  Called("cancelAll", params, t, t + d,
                   cancelAll(config, params, t, t + d))

Withdraw ==
    \E c \in CommonParams, n \in Seeds, d \in 0..MaxDrift :
        LET params == c @@ OwnParams("withdraw", n)
            t == Times[now]
        IN  Called("withdraw", params, t, t + d,
                   withdraw(config, params, t, t + d))

SetLeverage ==
    \E c \in CommonParams, n \in Seeds, d \in 0..MaxDrift :
        LET params == c @@ OwnParams("setLeverage", n)
            t == Times[now]
        IN  Called("setLeverage", params, t, t + d,
                   setLeverage(config, params, t, t + d))

Faucet ==
    \E c \in CommonParams, n \in Seeds, d \in 0..MaxDrift :
        LET params == c @@ OwnParams("faucet", n)
            t == Times[now]
        IN  Called("faucet", params, t, t + d, faucet(config, params, t, t + d))

Noop ==
    \E c \in CommonParams, d \in 0..MaxDrift :
        LET params == c @@ OwnParams("noop", 0)
            t == Times[now]
        IN  Called("noop", params, t, t + d, noop(config, params, t, t + d))

\* the caller is done with the envelope it got
Return ==
    /\ pc = "built"
    /\ pc' = "ready" /\ call' = None /\ result' = None
    /\ UNCHANGED <<appVars, env, bytes, decoded, keypair, permit, verdict, oracle, now,
                   config, request, log, configArg>>

NextBuild ==
    \/ Tick \/ Return
    \/ PlaceOrder \/ Modify \/ CancelById \/ CancelByClientId \/ CancelAll
    \/ Withdraw \/ SetLeverage \/ Faucet \/ Noop

SpecBuild == InitBuild /\ [][NextBuild]_vars

-----------------------------------------------------------------------------
(* Exchange adapter, hyperliquid.ts.  A request value that may be a number, *)
(* a string or a bigint is Num(n), Str(chars) or BigV(b), or Undefined.  A  *)
(* function that may throw returns [ok |-> FALSE, err |-> the error's kind] *)
(* in place of its value.                                                   *)

Num(n) == [t |-> "number", n |-> n]
Str(chars) == [t |-> "string", s |-> chars]
BigV(b) == [t |-> "bigint", b |-> b]

DEFAULT_EXPIRY == 60
DEFAULT_WINDOW_K == 128
DEFAULT_MAX_FEE == Big(1000000)

\* String(value)
String(value) ==
    CASE value.t = "string" -> value.s
      [] value.t = "number" -> BigToString(Big(value.n))
      [] value.t = "bigint" -> BigToString(value.b)
      [] value.t = "undefined" -> <<"u", "n", "d", "e", "f", "i", "n", "e", "d">>
      [] value.t = "null" -> <<"n", "u", "l", "l">>

\* BigInt(value)
BigInt(value) ==
    CASE value.t = "number" -> Ok(Big(value.n))
      [] value.t = "bigint" -> Ok(value.b)
      [] value.t = "string" -> StringToBigInt(value.s)
      [] OTHER -> Throw("TypeError")

\* Map.prototype.set on a map held as a sequence of <<key, value>>
MapSet(map, key, value) ==
    IF \E i \in 1..Len(map) : map[i][1] = key
    THEN [i \in 1..Len(map) |->
            IF map[i][1] = key THEN <<key, value>> ELSE map[i]]
    ELSE Append(map, <<key, value>>)

\* Map.prototype.get
MapGet(map, key) ==
    IF \E i \in 1..Len(map) : map[i][1] = key
    THEN Val(map[CHOOSE i \in 1..Len(map) : map[i][1] = key][2])
    ELSE Undefined

RECURSIVE IndexMarkets(_, _)
\* the forEach of createHyperliquidContext
IndexMarkets(markets, maps) ==
    IF markets = <<>> THEN maps
    ELSE IndexMarkets(Tail(markets),
            [bySymbol |-> MapSet(maps.bySymbol, Head(markets).symbol, Head(markets)),
             byIndex |-> MapSet(maps.byIndex, Head(markets).index, Head(markets))])

createHyperliquidContext(markets, programId, authorizer, options) ==
    [programId |-> programId,
     authorizer |-> authorizer,
     clusterType |-> Coalesce(options.clusterType, Val(ClusterType.Testnet)).v,
     relayer |-> options.relayer,
     expirySeconds |-> Coalesce(options.expirySeconds, Val(DEFAULT_EXPIRY)),
     hlWindowK |-> Coalesce(options.hlWindowK, Val(DEFAULT_WINDOW_K)),
     maxFeeQuote |-> Coalesce(options.maxFeeQuote, Val(DEFAULT_MAX_FEE)),
     markets |-> IndexMarkets(markets, [bySymbol |-> <<>>, byIndex |-> <<>>])]

\* resolveMarket with every identifier looked up by symbol
resolveMarket_bySymbolOnly(identifier, context) ==
    IF identifier.t = "string"
       /\ MapGet(context.markets.bySymbol, identifier.s).t = "val"
    THEN Ok(MapGet(context.markets.bySymbol, identifier.s).v)
    ELSE Throw("Unknown market symbol")

resolveMarket(identifier, context) ==
    IF identifier.t = "number"
    THEN IF MapGet(context.markets.byIndex, identifier.n).t = "val"
         THEN Ok(MapGet(context.markets.byIndex, identifier.n).v)
         ELSE Throw("Unknown market index")
    ELSE IF identifier.t = "string"
            /\ MapGet(context.markets.bySymbol, identifier.s).t = "val"
         THEN Ok(MapGet(context.markets.bySymbol, identifier.s).v)
         ELSE Throw("Unknown market symbol")

\* Buffer.from(str).toString("hex")
HexOfString(str) ==
    [i \in 1..(2 * Len(str)) |->
        IF i % 2 = 1 THEN HexDigits[(CharCode(str[(i + 1) \div 2]) \div 16) + 1]
        ELSE HexDigits[(CharCode(str[i \div 2]) % 16) + 1]]

\* the catch block of ensureClientId
ClientIdHashed(hash, read) ==
    [v |-> hash, c |-> Str(BigToString(hash)), read |-> read]

\* ensureClientId reading the bytes of c in little-endian order
ClientIdParsed_littleEndian(c, parsed, read) ==
    IF parsed.ok THEN [v |-> parsed.v, c |-> c, read |-> read]
    ELSE ClientIdHashed(BigInt(Str(<<"0", "x">> \o HexOfString(Reverse(c.s)))).v,
                        read)

\* the try block of ensureClientId, parsed being BigInt(c)
ClientIdParsed(c, parsed, read) ==
    IF parsed.ok THEN [v |-> parsed.v, c |-> c, read |-> read]
    ELSE ClientIdHashed(BigInt(Str(<<"0", "x">> \o HexOfString(c.s))).v, read)

\* ensureClientId from the point where order.c is set
ClientIdOf(c, read) == ClientIdParsed(c, BigInt(c), read)

\* ensureClientId; t is what Date.now() returns.  [v |-> the id, c |-> the
\* order's c after the call, read |-> whether the clock was read]
ensureClientId(order, t) ==
    IF order.c.t = "undefined" \/ order.c = Str(<<>>)
    THEN ClientIdOf(Str(BigToString(Big(t))), TRUE)
    ELSE ClientIdOf(order.c, FALSE)

isCancelByCloidRequest(value) == value.cloid.t # "undefined"

\* position of the first "." in str, Len(str) + 1 when there is none
RECURSIVE DotAt(_, _)
DotAt(str, i) ==
    IF i > Len(str) \/ str[i] = "." THEN i ELSE DotAt(str, i + 1)

\* str.split(".")[k], for k = 0 and k = 1 with "" for a missing part
SplitPart(str, k) ==
    LET first == DotAt(str, 1)
        second == DotAt(str, first + 1)
    IN  IF k = 0 THEN SubSeq(str, 1, first - 1)
        ELSE SubSeq(str, first + 1, second - 1)

RECURSIVE StripZeros(_)
\* str.replace(/^0+/, "")
StripZeros(str) ==
    IF str # <<>> /\ Head(str) = "0" THEN StripZeros(Tail(str)) ELSE str

\* the last two statements of decimalToFixed
SignedMagnitude(magnitude, isNegative) ==
    IF ~magnitude.ok THEN magnitude
    ELSE Ok(IF isNegative THEN BigNeg(magnitude.v) ELSE magnitude.v)

\* decimalToFixed with the fraction padded to the decimals but never cut
FixedOfString_keepsFraction(stringValue, decimals) ==
    LET isNegative == stringValue # <<>> /\ Head(stringValue) = "-"
        unsigned == IF isNegative \/ (stringValue # <<>> /\ Head(stringValue) = "+")
                    THEN Tail(stringValue) ELSE stringValue
        whole == SplitPart(unsigned, 0)
        fraction == SplitPart(unsigned, 1)
        normalizedFraction ==
            fraction \o [i \in 1..(decimals - Len(fraction)) |-> "0"]
        digits == StripZeros(whole \o normalizedFraction)
    IN  SignedMagnitude(
            IF digits = <<>> THEN BigInt(Str(<<"0">>)) ELSE BigInt(Str(digits)),
            isNegative)

\* decimalToFixed after String(value)
FixedOfString(stringValue, decimals) ==
    LET isNegative == stringValue # <<>> /\ Head(stringValue) = "-"
        unsigned == IF isNegative \/ (stringValue # <<>> /\ Head(stringValue) = "+")
                    THEN Tail(stringValue) ELSE stringValue
        whole == SplitPart(unsigned, 0)
        fraction == SplitPart(unsigned, 1)
        normalizedFraction ==
            SubSeq(fraction \o [i \in 1..decimals |-> "0"], 1, decimals)
        digits == StripZeros(whole \o normalizedFraction)
    IN  SignedMagnitude(
            IF digits = <<>> THEN BigInt(Str(<<"0">>)) ELSE BigInt(Str(digits)),
            isNegative)

decimalToFixed(value, decimals) == FixedOfString(String(value), decimals)

Gtc == <<"G", "t", "c">>
GTC == <<"G", "T", "C">>
Ioc == <<"I", "o", "c">>
IOC == <<"I", "O", "C">>
Alo == <<"A", "l", "o">>
ALO == <<"A", "L", "O">>

toTimeInForceValue(tif) ==
    CASE tif \in {Gtc, GTC} -> Ok([type |-> TimeInForceCode.GTC])
      [] tif \in {Ioc, IOC} -> Ok([type |-> TimeInForceCode.IOC])
      [] tif \in {Alo, ALO} -> Ok([type |-> TimeInForceCode.ALO])
      [] OTHER -> Throw("Unsupported time-in-force")

\* the first of the results that is a throw, else the last one
RECURSIVE FirstThrow(_)
FirstThrow(results) ==
    IF Len(results) = 1 \/ ~Head(results).ok THEN Head(results)
    ELSE FirstThrow(Tail(results))

\* the object buildPlaceAction returns, from the values it computed
PlaceActionOf(order, clientId, price, size, tif, marketId) ==
    IF ~FirstThrow(<<price, size, tif, marketId>>).ok
    THEN FirstThrow(<<price, size, tif, marketId>>)
    ELSE Ok([type |-> PermitActionType.Place,
             marketId |-> marketId.v,
             clientId |-> clientId.v,
             side |-> IF order.b THEN 0 ELSE 1,
             qty |-> size.v,
             price |-> Val(price.v),
             tif |-> tif.v,
             reduceOnly |-> order.r,
             triggerPrice |-> Null,
             triggerType |-> 0,
             healthFloor |-> Undefined])

\* buildPlaceAction / buildModifyAction with an ensureClientId that does not
\* write to the order
Built_orderUntouched(order, clientId, res) ==
    [res |-> res, order |-> order, read |-> clientId.read]

\* [res |-> the action or the throw, order |-> the order after the call,
\* read |-> whether the clock was read]
Built(order, clientId, res) ==
    [res |-> res, order |-> [order EXCEPT !.c = clientId.c], read |-> clientId.read]

\* buildPlaceAction with the market's two decimal counts taken for each other
PlaceWithClientId_swappedDecimals(order, market, clientId) ==
    Built(order, clientId,
          PlaceActionOf(order, clientId,
                        decimalToFixed(order.p, market.baseDecimals),
                        decimalToFixed(order.s, market.quoteDecimals),
                        toTimeInForceValue(Coalesce(order.tif, Val(Gtc)).v),
                        BigInt(market.marketId)))

\* buildPlaceAction once ensureClientId has returned clientId
PlaceWithClientId(order, market, clientId) ==
    Built(order, clientId,
          PlaceActionOf(order, clientId,
                        decimalToFixed(order.p, market.quoteDecimals),
                        decimalToFixed(order.s, market.baseDecimals),
                        toTimeInForceValue(Coalesce(order.tif, Val(Gtc)).v),
                        BigInt(market.marketId)))

buildPlaceAction(order, market, t) ==
    PlaceWithClientId(order, market, ensureClientId(order, t))

\* the object buildModifyAction returns, from the values it computed
ModifyActionOf(order, newClientId, price, size, tif, marketId, cancelOrderId) ==
    IF ~FirstThrow(<<price, size, tif, marketId, cancelOrderId>>).ok
    THEN FirstThrow(<<price, size, tif, marketId, cancelOrderId>>)
    ELSE Ok([type |-> PermitActionType.Modify,
             marketId |-> marketId.v,
             cancelOrderId |-> cancelOrderId.v,
             newClientId |-> newClientId.v,
             side |-> IF order.b THEN 0 ELSE 1,
             qty |-> size.v,
             price |-> Val(price.v),
             tif |-> tif.v,
             reduceOnly |-> order.r,
             triggerPrice |-> Null,
             triggerType |-> 0,
             healthFloor |-> Undefined])

\* buildModifyAction once ensureClientId has returned newClientId
ModifyWithClientId(modifyRequest, market, newClientId) ==
    Built(modifyRequest.order, newClientId,
          ModifyActionOf(modifyRequest.order, newClientId,
                         decimalToFixed(modifyRequest.order.p, market.quoteDecimals),
                         decimalToFixed(modifyRequest.order.s, market.baseDecimals),
                         toTimeInForceValue(
                            Coalesce(modifyRequest.order.tif, Val(Gtc)).v),
                         BigInt(market.marketId),
                         BigInt(modifyRequest.oid)))

buildModifyAction(modifyRequest, market, t) ==
    ModifyWithClientId(modifyRequest, market,
                       ensureClientId(modifyRequest.order, t))

\* the base58 text of a public key: "k" and the key's number stand for it
Base58(pk) == <<"k">> \o BigToString(Big(pk))

\* new PublicKey(str)
PublicKeyFromString(str) ==
    IF \E pk \in Keys : Base58(pk) = str
    THEN Ok(CHOOSE pk \in Keys : Base58(pk) = str)
    ELSE Throw("Invalid public key input")

\* add of buildPermitActions with the offset left out of the nonce
add_ignoresOffset(actions, baseNonce, permitAction, offset) ==
    Append(actions, [permitAction |-> permitAction, nonce |-> baseNonce])

\* add of buildPermitActions
add(actions, baseNonce, permitAction, offset) ==
    Append(actions,
           [permitAction |-> permitAction, nonce |-> BigAdd(baseNonce, offset)])

(* The state of one run of buildPermitActions: status |-> Ok or the throw,  *)
(* actions |-> the list built so far, action |-> the request's action       *)
(* object as it is now, r |-> how often Date.now() was read.  clock[i] is   *)
(* what the i-th read of Date.now() returns.                                *)

\* one turn of the forEach of case "cancel": what add is given, or the throw
CancelByIdOf(market, marketId, orderId) ==
    IF ~market.ok THEN market
    ELSE IF ~FirstThrow(<<marketId, orderId>>).ok
    THEN FirstThrow(<<marketId, orderId>>)
    ELSE Ok([type |-> PermitActionType.CancelById,
             marketId |-> marketId.v,
             orderId |-> orderId.v])

\* one turn of the forEach of case "cancelByCloid"
CancelByClientIdOf(isCloid, market, marketId, clientId) ==
    IF ~isCloid THEN Throw("cancelByCloid requires asset and cloid fields")
    ELSE IF ~market.ok THEN market
    ELSE IF ~FirstThrow(<<marketId, clientId>>).ok
    THEN FirstThrow(<<marketId, clientId>>)
    ELSE Ok([type |-> PermitActionType.CancelByClientId,
             marketId |-> marketId.v,
             clientId |-> clientId.v])

\* the run after a turn that built res: the action is added at offset idx,
\* or the run ends with the throw
Added(st, res, baseNonce, idx) ==
    IF ~res.ok THEN [st EXCEPT !.status = res]
    ELSE [st EXCEPT !.actions = add(@, baseNonce, res.v, idx)]

RECURSIVE CancelEach(_, _, _, _)
\* the forEach of case "cancel", from index idx on
CancelEach(st, idx, baseNonce, context) ==
    IF ~st.status.ok \/ idx >= Len(Coalesce(st.action.cancels, Val(<<>>)).v)
    THEN st
    ELSE CancelEach(
            Added(st,
                  CancelByIdOf(
                    resolveMarket(st.action.cancels.v[idx + 1].a, context),
                    BigInt(resolveMarket(st.action.cancels.v[idx + 1].a,
                                         context).v.marketId),
                    BigInt(st.action.cancels.v[idx + 1].o)),
                  baseNonce, idx),
            idx + 1, baseNonce, context)

RECURSIVE CancelByCloidEach(_, _, _, _)
\* the forEach of case "cancelByCloid"
CancelByCloidEach(st, idx, baseNonce, context) ==
    IF ~st.status.ok \/ idx >= Len(Coalesce(st.action.cancels, Val(<<>>)).v)
    THEN st
    ELSE CancelByCloidEach(
            Added(st,
                  CancelByClientIdOf(
                    isCancelByCloidRequest(st.action.cancels.v[idx + 1]),
                    resolveMarket(st.action.cancels.v[idx + 1].asset, context),
                    BigInt(resolveMarket(st.action.cancels.v[idx + 1].asset,
                                         context).v.marketId),
                    BigInt(st.action.cancels.v[idx + 1].cloid)),
                  baseNonce, idx),
            idx + 1, baseNonce, context)

\* the run after buildPlaceAction or buildModifyAction returned built
Counted(st, built) == [st EXCEPT !.r = IF built.read THEN @ + 1 ELSE @]

\* the turn of case "batchOrder" for the order at idx, its market resolved
BatchOrderTurn(st, idx, built, baseNonce) ==
    Added([Counted(st, built) EXCEPT !.action.orders.v[idx + 1] = built.order],
          built.res, baseNonce, idx)

RECURSIVE BatchOrderEach(_, _, _, _, _)
\* the forEach of case "batchOrder"
BatchOrderEach(st, idx, baseNonce, context, clock) ==
    IF ~st.status.ok \/ idx >= Len(Coalesce(st.action.orders, Val(<<>>)).v)
    THEN st
    ELSE IF ~resolveMarket(st.action.orders.v[idx + 1].a, context).ok
    THEN [st EXCEPT !.status = resolveMarket(st.action.orders.v[idx + 1].a, context)]
    ELSE BatchOrderEach(
            BatchOrderTurn(st, idx,
                buildPlaceAction(
                    st.action.orders.v[idx + 1],
                    resolveMarket(st.action.orders.v[idx + 1].a, context).v,
                    clock[st.r + 1]),
                baseNonce),
            idx + 1, baseNonce, context, clock)

\* the turn of case "modifyBatch" for the entry at idx, its market resolved
ModifyBatchTurn(st, idx, built, baseNonce) ==
    Added([Counted(st, built) EXCEPT
                !.action.modifies.v[idx + 1].order = built.order],
          built.res, baseNonce, idx)

RECURSIVE ModifyBatchEach(_, _, _, _, _)
\* the forEach of case "modifyBatch"
ModifyBatchEach(st, idx, baseNonce, context, clock) ==
    IF ~st.status.ok \/ idx >= Len(Coalesce(st.action.modifies, Val(<<>>)).v)
    THEN st
    ELSE IF ~resolveMarket(st.action.modifies.v[idx + 1].order.a, context).ok
    THEN [st EXCEPT !.status =
            resolveMarket(st.action.modifies.v[idx + 1].order.a, context)]
    ELSE ModifyBatchEach(
            ModifyBatchTurn(st, idx,
                buildModifyAction(
                    st.action.modifies.v[idx + 1],
                    resolveMarket(st.action.modifies.v[idx + 1].order.a,
                                  context).v,
                    clock[st.r + 1]),
                baseNonce),
            idx + 1, baseNonce, context, clock)

\* case "order" with order.a defined and its market resolved
OrderTurn(st, nested, built, baseNonce) ==
    Added([Counted(st, built) EXCEPT
                !.action = IF nested THEN [@ EXCEPT !.order = Val(built.order)]
                           ELSE built.order],
          built.res, baseNonce, 0)

\* case "order", the order being action.order or else the action itself
OrderCase(st, order, baseNonce, context, clock) ==
    IF order.a.t = "undefined" THEN st
    ELSE IF ~resolveMarket(order.a, context).ok
    THEN [st EXCEPT !.status = resolveMarket(order.a, context)]
    ELSE OrderTurn(st, st.action.order.t = "val",
                   buildPlaceAction(order, resolveMarket(order.a, context).v,
                                    clock[st.r + 1]),
                   baseNonce)

\* case "modify" with action.order defined and its market resolved
ModifyTurn(st, built, baseNonce) ==
    Added([Counted(st, built) EXCEPT !.action.order = Val(built.order)],
          built.res, baseNonce, 0)

\* case "modify"
ModifyCase(st, baseNonce, context, clock) ==
    IF st.action.order.t # "val" THEN st
    ELSE IF ~resolveMarket(st.action.order.v.a, context).ok
    THEN [st EXCEPT !.status = resolveMarket(st.action.order.v.a, context)]
    ELSE ModifyTurn(st,
            buildModifyAction(
                [oid |-> IF st.action.oid.t = "undefined" THEN Num(0)
                         ELSE st.action.oid,
                 order |-> st.action.order.v],
                resolveMarket(st.action.order.v.a, context).v,
                clock[st.r + 1]),
            baseNonce)

\* what add is given in case "updateLeverage", or the throw
SetLeverageOf(market, marketId, leverage) ==
    IF ~market.ok THEN market
    ELSE IF ~marketId.ok THEN marketId
    ELSE Ok([type |-> PermitActionType.SetLeverage,
             marketId |-> marketId.v,
             targetLeverageBps |->
                Min((IF leverage.t = "number" THEN leverage.n ELSE 0) * 100,
                    65535),
             healthFloor |-> Undefined])

\* case "updateLeverage"
UpdateLeverageCase(st, baseNonce, context) ==
    IF st.action.asset.t = "undefined" THEN st
    ELSE Added(st,
               SetLeverageOf(resolveMarket(st.action.asset, context),
                             BigInt(resolveMarket(st.action.asset,
                                                  context).v.marketId),
                             st.action.leverage),
               baseNonce, 0)

\* what add is given in case "faucet", or the throw
FaucetOf(marketId, amount, recipient) ==
    IF ~marketId.ok THEN marketId
    ELSE IF ~amount.ok \/ ~recipient.ok THEN Throw("Invalid faucet request")
    ELSE Ok([type |-> PermitActionType.Faucet,
             marketId |-> marketId.v,
             amount |-> amount.v,
             recipient |-> recipient.v])

\* case "faucet"
FaucetCase(st, baseNonce, context) ==
    Added(st,
          FaucetOf(IF st.action.marketId.t # "undefined"
                   THEN BigInt(st.action.marketId) ELSE Ok(Big(64)),
                   decimalToFixed(
                      IF st.action.amount.t \in {"undefined", "null"}
                      THEN Str(<<"0">>) ELSE Str(String(st.action.amount)),
                      6),
                   IF st.action.recipient.t # "undefined"
                      /\ String(st.action.recipient) # <<>>
                   THEN PublicKeyFromString(String(st.action.recipient))
                   ELSE Ok(context.authorizer)),
          baseNonce, 0)

\* what add is given in case "withdraw", or the throw
WithdrawOf(amountFixed, context) ==
    IF ~amountFixed.ok THEN amountFixed
    ELSE Ok([type |-> PermitActionType.Withdraw,
             amount |-> amountFixed.v,
             toOwner |-> context.authorizer,
             healthFloor |-> Undefined])

\* case "withdraw"
WithdrawCase(st, baseNonce, context) ==
    IF st.action.amount.t \in {"undefined", "null"} THEN st
    ELSE Added(st,
               WithdrawOf(decimalToFixed(Str(String(st.action.amount)), 6),
                          context),
               baseNonce, 0)

\* the switch of buildPermitActions
ActionSwitch(st, type, baseNonce, context, clock) ==
    CASE type = "order" ->
            OrderCase(st,
                      IF st.action.order.t = "val" THEN st.action.order.v
                      ELSE st.action,
                      baseNonce, context, clock)
      [] type = "cancel" -> CancelEach(st, 0, baseNonce, context)
      [] type = "cancelByCloid" -> CancelByCloidEach(st, 0, baseNonce, context)
      [] type = "batchOrder" -> BatchOrderEach(st, 0, baseNonce, context, clock)
      [] type = "updateLeverage" -> UpdateLeverageCase(st, baseNonce, context)
      [] type = "faucet" -> FaucetCase(st, baseNonce, context)
      [] type = "withdraw" -> WithdrawCase(st, baseNonce, context)
      [] type = "noop" ->
            Added(st, Ok([type |-> PermitActionType.Noop]), baseNonce, 0)
      [] type = "modify" -> ModifyCase(st, baseNonce, context, clock)
      [] type = "modifyBatch" ->
            ModifyBatchEach(st, 0, baseNonce, context, clock)
      [] OTHER -> st

\* buildPermitActions after its second statement
ActionsFrom(st, baseNonce, context, clock) ==
    IF ~baseNonce.ok THEN [st EXCEPT !.status = baseNonce]
    ELSE ActionSwitch(st, st.action.type, baseNonce.v, context, clock)

\* buildPermitActions; the result is the state of the run at its end
buildPermitActions(payload, context, clock) ==
    ActionsFrom([status |-> Ok(0), actions |-> <<>>, action |-> payload.action,
                 r |-> 0],
                BigInt(payload.nonce), context, clock)

\* the map callback of buildPermitEnvelopesFromExchangeRequest; t is what
\* Date.now() returns
EnvelopeOfAction(info, context, t) ==
    [domain |-> [programId |-> context.programId,
                 version |-> 1,
                 cluster |-> context.clusterType],
     authorizer |-> context.authorizer,
     keyType |-> KeyType.Ed25519,
     action |-> info.permitAction,
     mode |-> [type |-> ReplayModeType.HlWindow,
               k |-> Coalesce(context.hlWindowK, Val(DEFAULT_WINDOW_K)).v],
     expiresUnix |->
        Big((t \div 1000)
              + Coalesce(context.expirySeconds, Val(DEFAULT_EXPIRY)).v),
     maxFeeQuote |-> Coalesce(context.maxFeeQuote, Val(DEFAULT_MAX_FEE)).v,
     relayer |-> context.relayer,
     nonce |-> info.nonce]

\* what the call leaves behind when buildPermitActions ended in the state run
EnvelopesOfRun(run, exchangeRequest, context, clock) ==
    [status |-> run.status,
     envelopes |->
        IF ~run.status.ok THEN <<>>
        ELSE [i \in 1..Len(run.actions) |->
                EnvelopeOfAction(run.actions[i], context, clock[run.r + i])],
     request |-> [exchangeRequest EXCEPT !.action = run.action]]

\* buildPermitEnvelopesFromExchangeRequest: [status |-> Ok or the throw,
\* envelopes |-> the list returned, request |-> the request object after
\* the call]
buildPermitEnvelopesFromExchangeRequest(exchangeRequest, context, clock) ==
    EnvelopesOfRun(buildPermitActions(exchangeRequest, context, clock),
                   exchangeRequest, context, clock)

-----------------------------------------------------------------------------
(* signPermits, signer.ts *)

\* the alphabet of Buffer.toString("base64")
Base64Alphabet ==
    <<"A", "B", "C", "D", "E", "F", "G", "H", "I", "J", "K", "L", "M",
      "N", "O", "P", "Q", "R", "S", "T", "U", "V", "W", "X", "Y", "Z",
      "a", "b", "c", "d", "e", "f", "g", "h", "i", "j", "k", "l", "m",
      "n", "o", "p", "q", "r", "s", "t", "u", "v", "w", "x", "y", "z",
      "0", "1", "2", "3", "4", "5", "6", "7", "8", "9", "+", "/">>

\* the four characters base64 writes for the k-th group of three bytes
Base64Group(b, k) ==
    LET b1 == b[3 * k - 2]
        b2 == IF 3 * k - 1 <= Len(b) THEN b[3 * k - 1] ELSE 0
        b3 == IF 3 * k <= Len(b) THEN b[3 * k] ELSE 0
    IN  <<Base64Alphabet[(b1 \div 4) + 1],
          Base64Alphabet[((b1 % 4) * 16) + (b2 \div 16) + 1],
          IF 3 * k - 1 <= Len(b)
          THEN Base64Alphabet[((b2 % 16) * 4) + (b3 \div 64) + 1] ELSE "=",
          IF 3 * k <= Len(b) THEN Base64Alphabet[(b3 % 64) + 1] ELSE "=">>

\* Buffer.from(bytes).toString(encoding)
BufferToString(b, encoding) ==
    IF encoding = "base64"
    THEN [i \in 1..(4 * ((Len(b) + 2) \div 3)) |->
            Base64Group(b, (i + 3) \div 4)[((i - 1) % 4) + 1]]
    ELSE [i \in 1..(2 * Len(b)) |->
            IF i % 2 = 1 THEN HexDigits[(b[(i + 1) \div 2] \div 16) + 1]
            ELSE HexDigits[(b[i \div 2] % 16) + 1]]

\* a JavaScript array as a value of a field that may also hold a string
Arr(list) == [t |-> "array", a |-> list]

\* the body of the for loop of signPermits, g being what
\* generatePermitSignature returned
Pushed(run, g) ==
    [rawSignatures |-> Append(run.rawSignatures, g.signature),
     rawMessages |-> Append(run.rawMessages, g.message),
     oracle |-> g.oracle]

RECURSIVE SignEach(_, _, _, _)
\* the for loop of signPermits from the i-th envelope on
SignEach(run, list, i, kp) ==
    IF i > Len(list) THEN run
    ELSE SignEach(Pushed(run, generatePermitSignature(run.oracle, list[i], kp)),
                  list, i + 1, kp)

\* a signPermits that returns lists whatever the number of envelopes
PermitSignResultOf_alwaysLists(signatureList, messageList, run) ==
    [signatures |-> Arr(signatureList),
     signatureList |-> signatureList,
     messages |-> Arr(messageList),
     messageList |-> messageList,
     rawSignatures |-> run.rawSignatures,
     rawMessages |-> run.rawMessages]

\* the object signPermits returns after its loop and its two maps
PermitSignResultOf(signatureList, messageList, run) ==
    [signatures |-> IF Len(signatureList) = 1 THEN Str(signatureList[1])
                    ELSE Arr(signatureList),
     signatureList |-> signatureList,
     messages |-> IF Len(messageList) = 1 THEN Str(messageList[1])
                  ELSE Arr(messageList),
     messageList |-> messageList,
     rawSignatures |-> run.rawSignatures,
     rawMessages |-> run.rawMessages]

\* signPermits once the loop has ended in run
PermitsOfRun(run, encoding) ==
    PermitSignResultOf(
        [i \in 1..Len(run.rawSignatures) |->
            BufferToString(run.rawSignatures[i], encoding)],
        [i \in 1..Len(run.rawMessages) |->
            BufferToString(run.rawMessages[i],
                           IF encoding = "base64" THEN "base64" ELSE "hex")],
        run)

\* signPermits: envelopes is Arr(list) or one envelope; [ret |-> the result,
\* oracle |-> the signatures made so far]
signPermits(orc, envelopes, kp, encoding) ==
    LET list == IF "t" \in DOMAIN envelopes THEN envelopes.a ELSE <<envelopes>>
        run == SignEach([rawSignatures |-> <<>>, rawMessages |-> <<>>,
                         oracle |-> orc], list, 1, kp)
    IN  [ret |-> PermitsOfRun(run, encoding), oracle |-> run.oracle]

-----------------------------------------------------------------------------
(* Program addresses and instructions, instructions.ts *)

\* Buffer.from(text): the bytes of a text of letters, digits, "_" and "."
Utf8Code(ch) ==
    CASE ch = "_" -> 95
      [] ch = "." -> 46
      [] OTHER ->
            LET k == CHOOSE j \in 1..62 : Base64Alphabet[j] = ch
            IN  IF k <= 26 THEN 64 + k
                ELSE IF k <= 52 THEN 70 + k
                ELSE k - 5

BufferFrom(text) == [i \in 1..Len(text) |-> Utf8Code(text[i])]

\* the seed labels of the five derivations
SessionLabel == <<"s","e","s","s","i","o","n","_","v","1",".","0">>
NonceWindowLabel ==
    <<"n","o","n","c","e","_","w","i","n","d","o","w","_","v","1",".","0">>
AllowanceLabel == <<"a","l","l","o","w","a","n","c","e","_","v","1",".","0">>
UsedNonceLabel == <<"u","s","e","d","_","n","o","n","c","e","_","v","1",".","0">>
OrderLabel == <<"o","r","d","e","r","_","v","1",".","0">>
ProgramDerivedAddress ==
    <<"P","r","o","g","r","a","m","D","e","r","i","v","e","d",
      "A","d","d","r","e","s","s">>

\* buf.writeBigUInt64LE(value, off): a RangeError outside 0 .. 2^64 - 1
writeBigUInt64LE(buf, value, off) ==
    IF value.neg \/ Len(value.mag) > 8 THEN Throw("RangeError")
    ELSE Ok(WriteAt(buf, off, PadTo(value.mag, 8)))

RECURSIVE ConcatAll(_)
ConcatAll(buffers) ==
    IF buffers = <<>> THEN <<>> ELSE Head(buffers) \o ConcatAll(Tail(buffers))

RECURSIVE SumRange(_, _, _)
SumRange(b, lo, hi) ==
    IF lo > hi THEN 0
    ELSE IF lo = hi THEN b[lo]
    ELSE SumRange(b, lo, (lo + hi) \div 2) + SumRange(b, ((lo + hi) \div 2) + 1, hi)

SumOf(b) == SumRange(b, 1, Len(b))

\* sha256 as an ideal hash: the digest is known by the bytes hashed
sha256(b) == [sha256 |-> b]

\* whether the digest is a point of the curve; which digests are is fixed by
\* the bytes hashed (here by their sum), two in three being points
isOnCurve(digest) == SumOf(digest.sha256) % 3 # 0


\* PublicKey.createProgramAddressSync(seeds, programId)
createProgramAddressSync(seeds, programId) ==
    IF \E i \in 1..Len(seeds) : Len(seeds[i]) > 32
    THEN Throw("TypeError")
    ELSE LET digest == sha256(ConcatAll(seeds) \o KeyBytes(programId)
                                  \o BufferFrom(ProgramDerivedAddress))
         IN  IF isOnCurve(digest) THEN Throw("Invalid seeds")
             ELSE Ok(digest)

RECURSIVE FindFrom(_, _, _)
FindFrom(seeds, programId, nonce) ==
    IF nonce = 0 THEN Throw("Unable to find a viable program address nonce")
    ELSE LET r == createProgramAddressSync(Append(seeds, <<nonce>>), programId)
         IN  IF r.ok THEN Ok(<<r.v, nonce>>)
             ELSE IF r.err = "TypeError" THEN r
             ELSE FindFrom(seeds, programId, nonce - 1)

FindUp(seeds, programId, nonce) ==
    LET valid == {b \in nonce..255 :
                     createProgramAddressSync(Append(seeds, <<b>>), programId).ok}
        least == CHOOSE b \in valid : \A c \in valid : b <= c
    IN  Ok(<<createProgramAddressSync(Append(seeds, <<least>>), programId).v,
             least>>)

\* PublicKey.findProgramAddressSync(seeds, programId): [address, bump]
findProgramAddressSync_fromZero(seeds, programId) == FindUp(seeds, programId, 0)

findProgramAddressSync(seeds, programId) == FindFrom(seeds, programId, 255)

\* PermitPdas
sessionPda(programId, owner, session) ==
    findProgramAddressSync(
        <<BufferFrom(SessionLabel), KeyBytes(owner), KeyBytes(session)>>,
        programId)

nonceWindowPda(programId, signer) ==
    findProgramAddressSync(<<BufferFrom(NonceWindowLabel), KeyBytes(signer)>>,
                           programId)

allowancePda(programId, owner, authorizer, id) ==
    LET idBuffer == writeBigUInt64LE(BufferAlloc(8), id, 0)
    IN  IF ~idBuffer.ok THEN idBuffer
        ELSE findProgramAddressSync(
                 <<BufferFrom(AllowanceLabel), KeyBytes(owner),
                   KeyBytes(authorizer), idBuffer.v>>, programId)

usedNoncePda(programId, owner, salt) ==
    findProgramAddressSync(<<BufferFrom(UsedNonceLabel), KeyBytes(owner), salt>>,
                           programId)

perOrderPda(programId, marketId, user, orderId) ==
    LET marketBuffer == writeBigUInt64LE(BufferAlloc(8), marketId, 0)
        orderBuffer == writeBigUInt64LE(BufferAlloc(8), orderId, 0)
    IN  IF ~marketBuffer.ok THEN marketBuffer
        ELSE IF ~orderBuffer.ok THEN orderBuffer
        ELSE findProgramAddressSync(
                 <<BufferFrom(OrderLabel), marketBuffer.v, KeyBytes(user),
                   orderBuffer.v>>, programId)

\* the derivation a call names, with its arguments
PermitPdas(c) ==
    CASE c.pda = "sessionPda" -> sessionPda(c.programId, c.owner, c.session)
      [] c.pda = "nonceWindowPda" -> nonceWindowPda(c.programId, c.signer)
      [] c.pda = "allowancePda" ->
            allowancePda(c.programId, c.owner, c.authorizer, c.id)
      [] c.pda = "usedNoncePda" -> usedNoncePda(c.programId, c.owner, c.salt)
      [] c.pda = "perOrderPda" ->
            perOrderPda(c.programId, c.marketId, c.user, c.orderId)

PermitInstructionType ==
    [ConsumePermit |-> 50, DelegateSession |-> 51, RevokeSession |-> 52,
     CreateAllowance |-> 53, RevokeAllowance |-> 54]

\* SessionScope: a number of up to 32 bits, held by its magnitude
SessionScope ==
    [Place |-> Big(1), Cancel |-> Big(2), Withdraw |-> Big(4),
     SetLeverage |-> Big(8), Faucet |-> Big(16),
     All |-> BigOf(FALSE, <<255, 255, 255, 255>>)]

SYSVAR_INSTRUCTIONS_PUBKEY == "SysvarInstructions"
SystemProgramId == "SystemProgram"

AccountMeta(pubkey, isSigner, isWritable) ==
    [pubkey |-> pubkey, isSigner |-> isSigner, isWritable |-> isWritable]

\* keys.push of an account that was supplied
PushSupplied(keys, account, isWritable) ==
    IF account # Undefined THEN Append(keys, AccountMeta(account.v, FALSE, isWritable))
    ELSE keys

TransactionInstruction(keys, programId, data) ==
    [keys |-> keys, programId |-> programId, data |-> data]

createConsumePermitInstruction_allowanceFirst(programId, signedPermit, accounts) ==
    LET keys == <<AccountMeta(accounts.submitter, TRUE, FALSE),
                  AccountMeta(SYSVAR_INSTRUCTIONS_PUBKEY, FALSE, FALSE),
                  AccountMeta(accounts.global, FALSE, TRUE),
                  AccountMeta(accounts.cma, FALSE, TRUE),
                  AccountMeta(accounts.market, FALSE, TRUE),
                  AccountMeta(accounts.perOrderPda, FALSE, TRUE),
                  AccountMeta(accounts.marketOrderLog, FALSE, TRUE),
                  AccountMeta(accounts.rentPayer, TRUE, TRUE),
                  AccountMeta(SystemProgramId, FALSE, FALSE)>>
        keys1 == PushSupplied(keys, accounts.allowancePda, TRUE)
        keys2 == PushSupplied(keys1, accounts.sessionPda, FALSE)
        keys3 == PushSupplied(keys2, accounts.nonceWindowPda, TRUE)
        keys4 == PushSupplied(keys3, accounts.usedNoncePda, TRUE)
    IN  <<signedPermit.verifyInstruction,
          TransactionInstruction(
              keys4, programId,
              <<PermitInstructionType.ConsumePermit, 0>> \o signedPermit.signature)>>

createConsumePermitInstruction(programId, signedPermit, accounts) ==
    LET keys == <<AccountMeta(accounts.submitter, TRUE, FALSE),
                  AccountMeta(SYSVAR_INSTRUCTIONS_PUBKEY, FALSE, FALSE),
                  AccountMeta(accounts.global, FALSE, TRUE),
                  AccountMeta(accounts.cma, FALSE, TRUE),
                  AccountMeta(accounts.market, FALSE, TRUE),
                  AccountMeta(accounts.perOrderPda, FALSE, TRUE),
                  AccountMeta(accounts.marketOrderLog, FALSE, TRUE),
                  AccountMeta(accounts.rentPayer, TRUE, TRUE),
                  AccountMeta(SystemProgramId, FALSE, FALSE)>>
        keys1 == PushSupplied(keys, accounts.sessionPda, FALSE)
        keys2 == PushSupplied(keys1, accounts.nonceWindowPda, TRUE)
        keys3 == PushSupplied(keys2, accounts.allowancePda, TRUE)
        keys4 == PushSupplied(keys3, accounts.usedNoncePda, TRUE)
        permitBytes == signedPermit.signature
        instructionData ==
            <<PermitInstructionType.ConsumePermit>> \o <<0>> \o permitBytes
    IN  <<signedPermit.verifyInstruction,
          TransactionInstruction(keys4, programId, instructionData)>>

\* buf.writeBigInt64LE(value, off): a RangeError outside -2^63 .. 2^63 - 1
writeBigInt64LE(buf, value, off) ==
    IF \/ Len(value.mag) > 8
       \/ Len(value.mag) = 8 /\ value.mag[8] >= 128
            /\ ~(value.neg /\ value.mag = <<0, 0, 0, 0, 0, 0, 0, 128>>)
    THEN Throw("RangeError")
    ELSE Ok(WriteAt(buf, off, TwosBytes(value, 8)))

\* buf.writeUInt32LE(value, off), value held by its magnitude
writeUInt32LE(buf, value, off) ==
    IF value.neg \/ Len(value.mag) > 4 THEN Throw("RangeError")
    ELSE Ok(WriteAt(buf, off, PadTo(value.mag, 4)))

\* buf.writeUInt16LE(value, off)
writeUInt16LE(buf, value, off) ==
    IF value < 0 \/ value > 65535 THEN Throw("RangeError")
    ELSE Ok(WriteAt(buf, off, LE(value, 2)))

createDelegateSessionInstruction_scopeTruncated(programId, owner, session, expiresUnix, scopes, accounts) ==
    LET b1 == WriteAt(WriteAt(BufferAlloc(1 + 32 + 8 + 4), 0,
                              <<PermitInstructionType.DelegateSession>>),
                      1, KeyBytes(session))
        b2 == writeBigInt64LE(b1, expiresUnix, 33)
    IN  IF ~b2.ok THEN b2
        ELSE Ok(TransactionInstruction(
                 <<AccountMeta(owner, TRUE, FALSE),
                   AccountMeta(accounts.sessionPda, FALSE, TRUE),
                   AccountMeta(accounts.rentPayer, TRUE, TRUE),
                   AccountMeta(SystemProgramId, FALSE, FALSE)>>,
                 programId,
                 WriteAt(b2.v, 41, PadTo(SubSeq(scopes.mag, 1, Min(Len(scopes.mag), 2)), 2))))

createDelegateSessionInstruction(programId, owner, session, expiresUnix, scopes, accounts) ==
    LET keys == <<AccountMeta(owner, TRUE, FALSE),
                  AccountMeta(accounts.sessionPda, FALSE, TRUE),
                  AccountMeta(accounts.rentPayer, TRUE, TRUE),
                  AccountMeta(SystemProgramId, FALSE, FALSE)>>
        b0 == WriteAt(BufferAlloc(1 + 32 + 8 + 4), 0,
                      <<PermitInstructionType.DelegateSession>>)
        b1 == WriteAt(b0, 1, KeyBytes(session))
        b2 == writeBigInt64LE(b1, expiresUnix, 1 + 32)
        b3 == writeUInt32LE(b2.v, scopes, 1 + 32 + 8)
    IN  IF ~b2.ok THEN b2
        ELSE IF ~b3.ok THEN b3
        ELSE Ok(TransactionInstruction(keys, programId, b3.v))

createRevokeSessionInstruction(programId, owner, session, sessionPdaKey) ==
    LET keys == <<AccountMeta(owner, TRUE, FALSE),
                  AccountMeta(sessionPdaKey, FALSE, TRUE)>>
        b0 == WriteAt(BufferAlloc(1 + 32), 0,
                      <<PermitInstructionType.RevokeSession>>)
    IN  Ok(TransactionInstruction(keys, programId,
                                  WriteAt(b0, 1, KeyBytes(session))))

createAllowanceInstruction(programId, owner, authorizer, id, maxUses, accounts) ==
    LET keys == <<AccountMeta(owner, TRUE, FALSE),
                  AccountMeta(accounts.allowancePda, FALSE, TRUE),
                  AccountMeta(accounts.rentPayer, TRUE, TRUE),
                  AccountMeta(SystemProgramId, FALSE, FALSE)>>
        b0 == WriteAt(BufferAlloc(1 + 32 + 8 + 2), 0,
                      <<PermitInstructionType.CreateAllowance>>)
        b1 == WriteAt(b0, 1, KeyBytes(authorizer))
        b2 == writeBigInt64LE(b1, id, 1 + 32)
        b3 == writeUInt16LE(b2.v, maxUses, 1 + 32 + 8)
    IN  IF ~b2.ok THEN b2
        ELSE IF ~b3.ok THEN b3
        ELSE Ok(TransactionInstruction(keys, programId, b3.v))

-----------------------------------------------------------------------------
(* Adapter scenario: a context is created and exchange requests of every   *)
(* kind are turned into envelopes while the clock runs                      *)

\* the text of a string literal
Chars(digits) == [i \in 1..Len(digits) |-> Digits[digits[i] + 1]]

BTC == <<"B", "T", "C">>
ETH == <<"E", "T", "H">>

Markets ==
    <<[index |-> 0, symbol |-> BTC, marketId |-> Num(64),
       baseDecimals |-> 8, quoteDecimals |-> 6],
      [index |-> 1, symbol |-> ETH, marketId |-> BigV(Big(65)),
       baseDecimals |-> 3, quoteDecimals |-> 2]>>

\* createHyperliquidContext without options
NoOptions ==
    [clusterType |-> Undefined, relayer |-> Undefined,
     expirySeconds |-> Undefined, hlWindowK |-> Undefined,
     maxFeeQuote |-> Undefined]

ContextOptions ==
    {NoOptions,
     [clusterType |-> Val(ClusterType.Mainnet), relayer |-> Val(KeyOf(1)),
      expirySeconds |-> Val(30), hlWindowK |-> Val(64),
      maxFeeQuote |-> Val(Big(5000))]}

\* an action object with none of its optional fields
ExchangeAction(type) ==
    [type |-> type, order |-> Undefined, cancels |-> Undefined,
     asset |-> Undefined, leverage |-> Undefined, amount |-> Undefined,
     marketId |-> Undefined, recipient |-> Undefined, orders |-> Undefined,
     modifies |-> Undefined, oid |-> Undefined,
     a |-> Undefined, b |-> FALSE, p |-> Undefined, s |-> Undefined,
     r |-> FALSE, tif |-> Undefined, c |-> Undefined]

\* a request of the given kind with none of the optional fields
RequestOf(type, nonce) == [action |-> ExchangeAction(type), nonce |-> nonce]

\* "131425" x "0.00021" with a numeric client id
OrderPlain ==
    [a |-> Num(0), b |-> TRUE, p |-> Str(Chars(<<1, 3, 1, 4, 2, 5>>)),
     s |-> Str(<<"0", ".", "0", "0", "0", "2", "1">>), r |-> FALSE,
     tif |-> Val(Ioc), c |-> Str(<<"4", "2">>)]

\* signed decimals, no time-in-force and no client id
OrderBare ==
    [a |-> Str(ETH), b |-> FALSE, p |-> Str(<<"-", "1", ".", "5", "7", "9">>),
     s |-> Str(<<"+", "2", ".">>), r |-> TRUE, tif |-> Undefined,
     c |-> Undefined]

\* a client id that is no number
OrderNamed ==
    [a |-> Num(1), b |-> TRUE, p |-> Str(<<"0", "0", "7">>),
     s |-> Str(<<".", "5">>), r |-> FALSE, tif |-> Val(ALO),
     c |-> Str(<<"a", "1">>)]

\* an order for a market that is not registered
OrderUnknownMarket == [OrderPlain EXCEPT !.a = Num(7)]

\* an order whose price is no decimal, without a client id
OrderBadPrice ==
    [OrderBare EXCEPT !.p = Str(<<"1", "e", "3">>)]

\* an order with a time-in-force the adapter does not know
OrderBadTif == [OrderPlain EXCEPT !.tif = Val(<<"g", "t", "c">>)]

\* a client id that reads like a number and is none for BigInt
OrderDottedId == [OrderNamed EXCEPT !.c = Str(<<"1", ".", "5">>)]

BatchOrders == {OrderPlain, OrderBare, OrderNamed, OrderUnknownMarket}
SingleOrders == BatchOrders \cup {OrderBadPrice, OrderBadTif, OrderDottedId}

CancelItem(a, o, asset, cloid) ==
    [a |-> a, o |-> o, asset |-> asset, cloid |-> cloid]

Cancels ==
    {CancelItem(Num(0), Num(5), Undefined, Undefined),
     CancelItem(Str(ETH), Str(<<" ", "1", "8", " ">>), Undefined, Undefined),
     CancelItem(Num(1), Str(<<"0", "x", "1", "f">>), Num(0), Undefined),
     CancelItem(Undefined, Undefined, Num(0), Str(<<"4", "2">>))}

CloidCancels ==
    {CancelItem(Undefined, Undefined, Num(0), Str(<<"4", "2">>)),
     CancelItem(Num(9), Num(1), Str(ETH), Str(<<"-", "7">>)),
     CancelItem(Undefined, Undefined, Num(1), Str(<<"a", "1">>)),
     CancelItem(Num(0), Num(5), Undefined, Undefined)}

Modifies ==
    {[oid |-> Num(3), order |-> OrderPlain],
     [oid |-> Str(<<"1", "2">>), order |-> OrderBare],
     [oid |-> Num(4), order |-> OrderNamed],
     [oid |-> Undefined, order |-> OrderPlain]}

\* base nonces: a small number, a millisecond time stamp, 2^64 - 1
Nonces ==
    {Num(1000),
     BigV(StringToBigInt(Chars(<<1, 7, 3, 0, 0, 0, 0, 0, 0, 0, 0, 0, 0>>)).v),
     BigV(BigOf(FALSE, [i \in 1..8 |-> 255]))}

\* lists of at most n members of S
RECURSIVE ListsUpTo(_, _)
ListsUpTo(S, n) ==
    IF n = 0 THEN {<<>>}
    ELSE ListsUpTo(S, n - 1)
            \cup {Append(l, x) : l \in {m \in ListsUpTo(S, n - 1) : Len(m) = n - 1},
                                 x \in S}

\* what Date.now() may return on the reads of one call: the clock passes
\* from 59999 to 60000 before any one of them, or after the last
Clocks ==
    {[i \in 1..(2 * MaxItems) |-> IF i <= j THEN 59999 ELSE 60000] :
        j \in 0..(2 * MaxItems)}

InitAdapt ==
    /\ AppIdle
    /\ pc = "ready"
    /\ config = createHyperliquidContext(Markets, KeyOf(0), KeyOf(1), NoOptions)
    /\ env = None /\ bytes = None /\ decoded = None /\ keypair = 0
    /\ permit = None /\ verdict = None /\ oracle = <<>> /\ now = 0
    /\ call = None /\ request = None /\ result = None /\ log = {}
    /\ configArg = None

\* one call of buildPermitEnvelopesFromExchangeRequest on the context
BuildEnvelopes(payload, clock) ==
    /\ pc' = "built"
    /\ call' = [request |-> payload, clock |-> clock]
    /\ result' = buildPermitEnvelopesFromExchangeRequest(payload, config, clock)
    /\ request' = result'.request
    /\ UNCHANGED <<appVars, env, bytes, decoded, keypair, permit, verdict, oracle, now,
                   config, log, configArg>>

BuildOrder ==
    /\ pc = "ready"
    /\ \E o \in SingleOrders, nested \in BOOLEAN, n \in Nonces, clock \in Clocks :
        BuildEnvelopes(
            IF nested THEN [RequestOf("order", n) EXCEPT !.action.order = Val(o)]
            ELSE [RequestOf("order", n) EXCEPT
                    !.action.a = o.a, !.action.b = o.b, !.action.p = o.p,
                    !.action.s = o.s, !.action.r = o.r, !.action.tif = o.tif,
                    !.action.c = o.c],
            clock)

\* an order request that holds no order
BuildOrderAbsent ==
    /\ pc = "ready"
    /\ \E n \in Nonces, clock \in Clocks :
        BuildEnvelopes(RequestOf("order", n), clock)

BuildCancel ==
    /\ pc = "ready"
    /\ \E l \in ListsUpTo(Cancels, MaxItems), n \in Nonces, clock \in Clocks :
        BuildEnvelopes([RequestOf("cancel", n) EXCEPT !.action.cancels = Val(l)],
                       clock)

BuildCancelByCloid ==
    /\ pc = "ready"
    /\ \E l \in ListsUpTo(CloidCancels, MaxItems), n \in Nonces, clock \in Clocks :
        BuildEnvelopes(
            [RequestOf("cancelByCloid", n) EXCEPT !.action.cancels = Val(l)],
            clock)

BuildBatchOrder ==
    /\ pc = "ready"
    /\ \E l \in ListsUpTo(BatchOrders, MaxItems), n \in Nonces, clock \in Clocks :
        BuildEnvelopes(
            [RequestOf("batchOrder", n) EXCEPT !.action.orders = Val(l)], clock)

BuildModifyBatch ==
    /\ pc = "ready"
    /\ \E l \in ListsUpTo(Modifies, MaxItems), n \in Nonces, clock \in Clocks :
        BuildEnvelopes(
            [RequestOf("modifyBatch", n) EXCEPT !.action.modifies = Val(l)],
            clock)

\* a batch request without its list
BuildBatchAbsent ==
    /\ pc = "ready"
    /\ \E type \in {"cancel", "cancelByCloid", "batchOrder", "modifyBatch"},
       n \in Nonces, clock \in Clocks :
        BuildEnvelopes(RequestOf(type, n), clock)

BuildModify ==
    /\ pc = "ready"
    /\ \E o \in {Val(x) : x \in SingleOrders} \cup {Undefined},
       oid \in {Undefined, Num(3), Str(<<"x">>)}, n \in Nonces, clock \in Clocks :
        BuildEnvelopes(
            [RequestOf("modify", n) EXCEPT !.action.order = o, !.action.oid = oid],
            clock)

BuildUpdateLeverage ==
    /\ pc = "ready"
    /\ \E asset \in {Undefined, Num(0), Str(ETH), Str(<<"x">>)},
       leverage \in {Undefined, Num(0), Num(20), Num(700), Num(-3)},
       n \in Nonces, clock \in Clocks :
        BuildEnvelopes(
            [RequestOf("updateLeverage", n) EXCEPT
                !.action.asset = asset, !.action.leverage = leverage],
            clock)

BuildFaucet ==
    /\ pc = "ready"
    /\ \E marketId \in {Undefined, Num(3), Str(<<"x">>)},
       amount \in {Undefined, Num(25), Str(<<"1", ".", "5">>), Str(<<"a">>)},
       recipient \in {Undefined, Str(<<>>), Str(Base58(KeyOf(0))), Str(<<"x">>)},
       n \in Nonces, clock \in Clocks :
        BuildEnvelopes(
            [RequestOf("faucet", n) EXCEPT
                !.action.marketId = marketId, !.action.amount = amount,
                !.action.recipient = recipient],
            clock)

BuildWithdraw ==
    /\ pc = "ready"
    /\ \E amount \in {Undefined, Null, Num(25), Str(<<"-", "0", ".", "5">>),
                   Str(<<"a">>)},
       n \in Nonces, clock \in Clocks :
        BuildEnvelopes([RequestOf("withdraw", n) EXCEPT !.action.amount = amount],
                       clock)

BuildNoop ==
    /\ pc = "ready"
    /\ \E n \in Nonces \cup {Undefined}, clock \in Clocks :
        BuildEnvelopes(RequestOf("noop", n), clock)

\* a request of a kind the adapter does not know
BuildOther ==
    /\ pc = "ready"
    /\ \E n \in Nonces, clock \in Clocks :
        BuildEnvelopes(RequestOf("approveAgent", n), clock)

\* the caller builds a second time from the request object of an order
\* request, as the first call left it; first is what the first call returned
BuildAgain ==
    /\ pc = "built"
    /\ call.request.action.type = "order"
    /\ \E clock \in {[i \in 1..(2 * MaxItems) |-> t] : t \in {60000, 61000}} :
          /\ pc' = "rebuilt"
          /\ call' = [request |-> call.request, clock |-> clock, first |-> result]
          /\ result' = buildPermitEnvelopesFromExchangeRequest(request, config, clock)
          /\ request' = result'.request
    /\ UNCHANGED <<appVars, env, bytes, decoded, keypair, permit, verdict, oracle, now,
                   config, log, configArg>>

\* the application creates its context anew, with other options
CreateContext ==
    /\ pc = "ready"
    /\ \E options \in ContextOptions :
          config' = createHyperliquidContext(Markets, KeyOf(0), KeyOf(1), options)
    /\ UNCHANGED <<appVars, pc, env, bytes, decoded, keypair, permit, verdict, oracle,
                   now, call, request, result, log, configArg>>

\* the caller takes the result; the next call may follow
ReturnEnvelopes ==
    /\ pc \in {"built", "rebuilt"}
    /\ pc' = "ready"
    /\ call' = None /\ request' = None /\ result' = None
    /\ UNCHANGED <<appVars, env, bytes, decoded, keypair, permit, verdict, oracle, now,
                   config, log, configArg>>

NextAdapt ==
    \/ BuildOrder \/ BuildOrderAbsent \/ BuildCancel \/ BuildCancelByCloid
    \/ BuildBatchOrder \/ BuildModifyBatch \/ BuildBatchAbsent \/ BuildModify
    \/ BuildUpdateLeverage \/ BuildFaucet \/ BuildWithdraw \/ BuildNoop
    \/ BuildOther \/ BuildAgain \/ ReturnEnvelopes \/ CreateContext

SpecAdapt == InitAdapt /\ [][NextAdapt]_vars

-----------------------------------------------------------------------------
(* Sequence scenario: one builder and one signer are used over and over    *)
(* while the clock advances; log lists every call of encodePermitEnvelope  *)
(* made so far, directly or from inside serialize and sign, with the       *)
(* envelope it was given and the bytes it returned                         *)

\* the envelopes a caller of the sequence scenario holds
SeqEnvelopes ==
    {EnvelopeOf(0, PermitActionType.Place, SignShape(0), ReplayModeType.Sequence,
                TRUE),
     EnvelopeOf(1, PermitActionType.Noop, SignShape(1), ReplayModeType.HlWindow,
                FALSE)}

\* what the sequence scenario passes to the builder's constructors
SeqParams ==
    [authorizer |-> KeyOf(1), nonce |-> Val(Big(7)), expiresIn |-> Val(90),
     relayer |-> Undefined, replayMode |-> Undefined]

Logged(op, envelope, encoded) ==
    Append(log, [op |-> op, envelope |-> envelope, bytes |-> encoded,
                 at |-> now])

InitSeq ==
    /\ AppIdle
    /\ pc = "idle"
    /\ configArg = [programId |-> KeyOf(0), cluster |-> Undefined,
                    defaultExpiry |-> Undefined, defaultMaxFee |-> Undefined]
    /\ config = PermitBuilderConstructor(configArg)
    /\ keypair = Keypair(KeyOf(0))
    /\ now = 1 /\ env = None /\ bytes = None /\ log = <<>> /\ oracle = <<>>
    /\ decoded = None /\ permit = None /\ verdict = None
    /\ call = None /\ request = None /\ result = None

\* the wall clock moves on to its next reading
SeqTick ==
    /\ pc = "idle"
    /\ now < Len(Times)
    /\ now' = now + 1
    /\ UNCHANGED <<appVars, pc, env, bytes, decoded, keypair, permit, verdict, oracle,
                   config, call, request, result, log, configArg>>

\* a caller encodes an envelope it holds
SeqEncode ==
    /\ pc = "idle"
    /\ Len(log) < MaxLog
    /\ \E e \in SeqEnvelopes :
          /\ env' = e
          /\ bytes' = encodePermitEnvelope(e)
          /\ log' = Logged("encode", e, bytes')
    /\ UNCHANGED <<appVars, pc, decoded, keypair, permit, verdict, oracle, now, config,
                   call, request, result, configArg>>

\* builder.noop(...) or builder.cancelAll(...) followed by builder.serialize
SeqBuild ==
    /\ pc = "idle"
    /\ Len(log) < MaxLog
    /\ \E op \in {"noop", "cancelAll"} :
          /\ env' = IF op = "noop"
                    THEN noop(config, SeqParams, Times[now], Times[now])
                    ELSE cancelAll(config, SeqParams @@ OwnParams("cancelAll", 1),
                                   Times[now], Times[now])
          /\ bytes' = encodePermitEnvelope(env')
          /\ log' = Logged(op, env', bytes')
    /\ UNCHANGED <<appVars, pc, decoded, keypair, permit, verdict, oracle, now, config,
                   call, request, result, configArg>>

\* what SeqSign records: the message sign encoded is the one it placed in the
\* verify instruction
Signed(e, r) ==
    /\ permit' = r.ret
    /\ oracle' = r.oracle
    /\ log' = Logged("sign", e, SubSeq(r.ret.verifyInstruction.data, 113,
                                       Len(r.ret.verifyInstruction.data)))

\* signer.sign(envelope, keypair) on an envelope the caller holds
SeqSign ==
    /\ pc = "idle"
    /\ Len(log) < MaxLog
    /\ \E e \in SeqEnvelopes : Signed(e, sign(oracle, e, keypair))
    /\ UNCHANGED <<appVars, pc, env, bytes, decoded, keypair, verdict, now, config,
                   call, request, result, configArg>>

NextSeq == SeqTick \/ SeqEncode \/ SeqBuild \/ SeqSign

SpecSeq == InitSeq /\ [][NextSeq]_vars

-----------------------------------------------------------------------------
(* Conversion scenario: decimalToFixed is called on decimal strings of     *)
(* every shape: with and without a sign, a whole part, a point and a       *)
(* fraction shorter than, as long as and longer than the decimals          *)

\* the digits the scenario writes its numbers with
DecimalDigits == {0, 5, 9}

\* the digit strings of exactly n digits
RECURSIVE DigitStrings(_)
DigitStrings(n) ==
    IF n = 0 THEN {<<>>}
    ELSE {Append(ds, d) : ds \in DigitStrings(n - 1), d \in DecimalDigits}

DigitStringsUpTo(n) == UNION {DigitStrings(k) : k \in 0..n}

\* the text of a decimal: sign "", "+" or "-", the whole part's digits, and
\* the fraction's digits after a point when there is one
DecimalText(sgn, whole, point, fraction) ==
    sgn \o Chars(whole) \o (IF point THEN <<".">> \o Chars(fraction) ELSE <<>>)

\* the decimals of the specification's examples
DecimalExamples ==
    {[sign |-> <<>>, whole |-> <<1, 3, 1, 4, 2, 5>>, point |-> FALSE,
      fraction |-> <<>>, decimals |-> 6],
     [sign |-> <<>>, whole |-> <<0>>, point |-> TRUE,
      fraction |-> <<0, 0, 0, 2, 1>>, decimals |-> 8],
     [sign |-> <<"-">>, whole |-> <<1>>, point |-> TRUE,
      fraction |-> <<5>>, decimals |-> 2]}

InitFixed ==
    /\ AppIdle
    /\ pc = "ready"
    /\ config = None
    /\ env = None /\ bytes = None /\ decoded = None /\ keypair = 0
    /\ permit = None /\ verdict = None /\ oracle = <<>> /\ now = 0
    /\ call = None /\ request = None /\ result = None /\ log = {}
    /\ configArg = None

\* one call decimalToFixed(value, decimals), value being the text of input
Converted(input, value) ==
    /\ call' = [input |-> input, value |-> value]
    /\ result' = decimalToFixed(Str(value), input.decimals)
    /\ pc' = "converted"
    /\ UNCHANGED <<appVars, env, bytes, decoded, keypair, permit, verdict, oracle, now,
                   config, request, log, configArg>>

ConvertDecimal ==
    /\ pc = "ready"
    /\ \E sgn \in {<<>>, <<"+">>, <<"-">>}, whole \in DigitStringsUpTo(MaxWhole),
          point \in BOOLEAN, fraction \in DigitStringsUpTo(MaxFraction),
          decimals \in 0..MaxDecimals :
          /\ point \/ fraction = <<>>
          /\ Converted([sign |-> sgn, whole |-> whole, point |-> point,
                        fraction |-> fraction, decimals |-> decimals],
                       DecimalText(sgn, whole, point, fraction))

ConvertExample ==
    /\ pc = "ready"
    /\ \E input \in DecimalExamples :
          Converted(input, DecimalText(input.sign, input.whole, input.point,
                                       input.fraction))

\* the caller takes the result
ReturnFixed ==
    /\ pc = "converted"
    /\ pc' = "ready" /\ call' = None /\ result' = None
    /\ UNCHANGED <<appVars, env, bytes, decoded, keypair, permit, verdict, oracle, now,
                   config, request, log, configArg>>

NextFixed == ConvertDecimal \/ ConvertExample \/ ReturnFixed

SpecFixed == InitFixed /\ [][NextFixed]_vars

-----------------------------------------------------------------------------
-----------------------------------------------------------------------------
(* Width scenario: a caller encodes envelopes in which one numeric field   *)
(* holds a value at or beyond the end of its layout's range                *)

\* where an envelope keeps a number: the field's place, its name and the
\* bytes its layout spans
WidthFields ==
    [at : {"envelope"}, name : {"expiresUnix", "maxFeeQuote", "nonce"}, span : {8}]
    \cup [at : {"action"},
          name : {"marketId", "qty", "price", "triggerPrice", "orderId",
                  "cancelOrderId", "amount"},
          span : {8}]
    \cup [at : {"action"}, name : {"clientId", "newClientId"}, span : {16}]
    \cup [at : {"action"}, name : {"targetLeverageBps"}, span : {2}]
    \cup [at : {"mode"}, name : {"expected"}, span : {8}]
    \cup [at : {"mode"}, name : {"k"}, span : {1}]

\* the envelope keeps a number in the field
HasField(e, f) ==
    CASE f.at = "envelope" -> TRUE
      [] f.at = "action" -> f.name \in DOMAIN e.action
      [] f.at = "mode" -> f.name \in DOMAIN e.mode

\* 256^span - 1, 256^span and the numbers 256^span + 1 + 256^span * j
EdgeMagnitudes(span) ==
    {[i \in 1..span |-> 255], [i \in 1..span |-> 0] \o <<1>>}
        \cup {<<1>> \o [i \in 1..(span - 1) |-> 0] \o <<j + 1>> : j \in 0..MaxSeed}

\* the values drawn for a field: numbers for u8 and u16, bigints otherwise
EdgeValues(f) ==
    IF f.span <= 2
    THEN {FromLE(mag) : mag \in EdgeMagnitudes(f.span)}
    ELSE {BigOf(FALSE, mag) : mag \in EdgeMagnitudes(f.span)}

\* the envelope with the field set to the value
WithField(e, f, value) ==
    CASE f.at = "envelope" -> [e EXCEPT ![f.name] = value]
      [] f.at = "mode" -> [e EXCEPT !.mode[f.name] = value]
      [] f.at = "action" ->
            [e EXCEPT !.action[f.name] =
                IF \/ f.name \in {"price", "triggerPrice"}
                   \/ e.action.type = PermitActionType.CancelAll
                THEN Val(value) ELSE value]

InitRange == pc = "ready" /\ env = None /\ InitIdle

\* encodePermitEnvelope(envelope)
Ranged(envelope) ==
    /\ env' = envelope
    /\ result' = EncodeOutcome(envelope)
    /\ pc' = "ranged"
    /\ UNCHANGED <<appVars, bytes, decoded, keypair, permit, verdict, oracle, now, config,
                   call, request, log, configArg>>

EncodeEdge ==
    /\ pc = "ready"
    /\ \E n \in Seeds, a \in 0..8, m \in 0..3, f \in WidthFields :
          /\ HasField(EnvelopeOf(n, a, [price |-> TRUE, tif |-> 4, trig |-> FALSE,
                                        hf |-> TRUE], m, FALSE), f)
          /\ \E value \in EdgeValues(f) :
                Ranged(WithField(EnvelopeOf(n, a, [price |-> TRUE, tif |-> 4,
                                                   trig |-> FALSE, hf |-> TRUE],
                                            m, FALSE),
                                 f, value))

\* the caller has the bytes or has caught the throw
ReturnEdge ==
    /\ pc = "ranged"
    /\ pc' = "ready" /\ env' = None /\ result' = None
    /\ UNCHANGED <<appVars, bytes, decoded, keypair, permit, verdict, oracle, now, config,
                   call, request, log, configArg>>

NextRange == EncodeEdge \/ ReturnEdge

SpecRange == InitRange /\ [][NextRange]_vars

-----------------------------------------------------------------------------
-----------------------------------------------------------------------------
(* Batch signing scenario: a caller has signPermits sign one envelope or a *)
(* list of envelopes, in either text encoding                              *)

PermitEnvelopes ==
    SeqEnvelopes
        \cup {EnvelopeOf(1, PermitActionType.CancelByClientId, SignShape(1),
                         ReplayModeType.Nonce, FALSE)}

InitPermits ==
    /\ AppIdle
    /\ pc = "ready" /\ env = None /\ keypair = 0 /\ bytes = None
    /\ decoded = None /\ permit = None /\ verdict = None /\ oracle = <<>>
    /\ now = 0 /\ config = None /\ call = None /\ request = None
    /\ result = None /\ log = {} /\ configArg = None

\* signPermits(envelopes, keypair, encoding); encoding "" is the argument
\* left out
PermitsSigned(envelopes, kp, encoding, r) ==
    /\ pc' = "permitsSigned"
    /\ call' = [envelopes |-> envelopes, encoding |-> encoding]
    /\ env' = envelopes
    /\ keypair' = kp
    /\ result' = r.ret
    /\ oracle' = r.oracle
    /\ UNCHANGED <<appVars, bytes, decoded, permit, verdict, now, config, request, log,
                   configArg>>

SignList ==
    /\ pc = "ready"
    /\ \E l \in ListsUpTo(PermitEnvelopes, MaxItems), k \in Keys,
          encoding \in {"", "hex", "base64"} :
            PermitsSigned(Arr(l), Keypair(k), encoding,
                          signPermits(oracle, Arr(l), Keypair(k),
                                      IF encoding = "" THEN "hex" ELSE encoding))

SignBare ==
    /\ pc = "ready"
    /\ \E e \in PermitEnvelopes, k \in Keys, encoding \in {"", "hex", "base64"} :
            PermitsSigned(e, Keypair(k), encoding,
                          signPermits(oracle, e, Keypair(k),
                                      IF encoding = "" THEN "hex" ELSE encoding))

\* the caller has taken the result
ReturnPermits ==
    /\ pc = "permitsSigned"
    /\ pc' = "ready" /\ env' = None /\ keypair' = 0 /\ call' = None
    /\ result' = None /\ oracle' = <<>>
    /\ UNCHANGED <<appVars, bytes, decoded, permit, verdict, now, config, request, log,
                   configArg>>

NextPermits == SignList \/ SignBare \/ ReturnPermits

SpecPermits == InitPermits /\ [][NextPermits]_vars

-----------------------------------------------------------------------------
-----------------------------------------------------------------------------
(* Instruction scenario: a caller derives the program's addresses and      *)
(* builds the consumption and delegation instructions                      *)

\* ids at and around the ends of the 64-bit ranges
TwoTo63 == BigOf(FALSE, <<0, 0, 0, 0, 0, 0, 0, 128>>)
TwoTo64 == BigOf(FALSE, <<0, 0, 0, 0, 0, 0, 0, 0, 1>>)
UnsignedIds ==
    {Big(0), Big(1), Big(258), BigOf(FALSE, [i \in 1..8 |-> 255]), TwoTo64, Big(-1)}
SignedIds ==
    {Big(0), Big(1), Big(-1), BigOf(FALSE, [i \in 1..8 |-> IF i = 8 THEN 127 ELSE 255]),
     BigNeg(TwoTo63), TwoTo63, BigNeg(BigAdd(TwoTo63, 1))}

PdaCalls ==
    UNION {
        {[pda |-> "sessionPda", programId |-> p, owner |-> o, session |-> k],
         [pda |-> "nonceWindowPda", programId |-> p, signer |-> o],
         [pda |-> "usedNoncePda", programId |-> p, owner |-> o, salt |-> Fill32(k)]}
            \cup {[pda |-> "allowancePda", programId |-> p, owner |-> o,
                   authorizer |-> k, id |-> id] : id \in UnsignedIds}
            \cup {[pda |-> "perOrderPda", programId |-> p, marketId |-> id,
                   user |-> o, orderId |-> BigAdd(id, k)] : id \in UnsignedIds}
        : p \in Keys, o \in Keys, k \in Keys}

\* the unions of the five flags, All, and numbers outside 32 bits
ScopeValues ==
    {Big(n) : n \in 0..31}
        \cup {SessionScope.All, BigAdd(SessionScope.All, 1), Big(-1)}

\* the accounts of a consumption: nine of their own and the records supplied
AccountsOf(k, supplied) ==
    [submitter |-> k, global |-> k + 10, cma |-> k + 20, market |-> k + 30,
     perOrderPda |-> k + 40, marketOrderLog |-> k + 50, rentPayer |-> k + 60,
     sessionPda |-> IF "sessionPda" \in supplied THEN Val(k + 70) ELSE Undefined,
     nonceWindowPda |->
        IF "nonceWindowPda" \in supplied THEN Val(k + 80) ELSE Undefined,
     allowancePda |->
        IF "allowancePda" \in supplied THEN Val(k + 90) ELSE Undefined,
     usedNoncePda |->
        IF "usedNoncePda" \in supplied THEN Val(k + 100) ELSE Undefined]

InitInstr ==
    /\ AppIdle
    /\ pc = "ready" /\ env = None /\ keypair = 0 /\ bytes = None
    /\ decoded = None /\ permit = None /\ verdict = None /\ oracle = <<>>
    /\ now = 0 /\ config = None /\ call = None /\ request = None
    /\ result = None /\ log = {} /\ configArg = None

\* a call of one of the functions of instructions.ts and what it gave
Instructed(at, c, r) ==
    /\ pc' = at
    /\ call' = c
    /\ result' = r
    /\ UNCHANGED <<appVars, env, keypair, bytes, decoded, verdict, now, config, request,
                   log, configArg>>

DeriveAddress ==
    /\ pc = "ready"
    /\ \E c \in PdaCalls : Instructed("derived", c, PermitPdas(c))
    /\ UNCHANGED <<appVars, permit, oracle>>

\* the same derivation called a second time
DeriveAgain ==
    /\ pc = "derived"
    /\ pc' = "derivedAgain"
    /\ verdict' = PermitPdas(call)
    /\ UNCHANGED <<appVars, env, keypair, bytes, decoded, permit, oracle, now, config,
                   call, request, result, log, configArg>>

ConsumeSigned(p, signed, accounts) ==
    /\ Instructed("consumeBuilt",
                  [programId |-> p, accounts |-> accounts],
                  createConsumePermitInstruction(p, signed.ret, accounts))
    /\ permit' = signed.ret
    /\ oracle' = signed.oracle

ConsumePermit ==
    /\ pc = "ready"
    /\ \E e \in PermitEnvelopes, k \in Keys, p \in Keys,
          supplied \in SUBSET {"sessionPda", "nonceWindowPda", "allowancePda",
                               "usedNoncePda"} :
            ConsumeSigned(p, sign(oracle, e, Keypair(k)), AccountsOf(k, supplied))

DelegateSession ==
    /\ pc = "ready"
    /\ \E p \in Keys, k \in Keys, expiresUnix \in SignedIds, scopes \in ScopeValues :
            Instructed("delegateBuilt",
                       [programId |-> p, owner |-> k, session |-> k + 1,
                        expiresUnix |-> expiresUnix, scopes |-> scopes,
                        accounts |-> [sessionPda |-> k + 70, rentPayer |-> k + 60]],
                       createDelegateSessionInstruction(
                           p, k, k + 1, expiresUnix, scopes,
                           [sessionPda |-> k + 70, rentPayer |-> k + 60]))
    /\ UNCHANGED <<appVars, permit, oracle>>

RevokeSession ==
    /\ pc = "ready"
    /\ \E p \in Keys, k \in Keys, session \in Keys :
            Instructed("revokeBuilt",
                       [programId |-> p, owner |-> k, session |-> session,
                        sessionPda |-> k + 70],
                       createRevokeSessionInstruction(p, k, session, k + 70))
    /\ UNCHANGED <<appVars, permit, oracle>>

CreateAllowance ==
    /\ pc = "ready"
    /\ \E p \in Keys, k \in Keys, id \in SignedIds,
          maxUses \in {0, 1, 258, 65535, 65536, -1} :
            Instructed("allowanceBuilt",
                       [programId |-> p, owner |-> k, authorizer |-> k + 1,
                        id |-> id, maxUses |-> maxUses,
                        accounts |-> [allowancePda |-> k + 90, rentPayer |-> k + 60]],
                       createAllowanceInstruction(
                           p, k, k + 1, id, maxUses,
                           [allowancePda |-> k + 90, rentPayer |-> k + 60]))
    /\ UNCHANGED <<appVars, permit, oracle>>

\* the caller has taken what was built
ReturnInstr ==
    /\ pc \in {"derived", "derivedAgain", "consumeBuilt", "delegateBuilt",
               "revokeBuilt", "allowanceBuilt"}
    /\ pc' = "ready" /\ call' = None /\ result' = None /\ verdict' = None
    /\ permit' = None /\ oracle' = <<>>
    /\ UNCHANGED <<appVars, env, keypair, bytes, decoded, now, config, request, log,
                   configArg>>

NextInstr ==
    \/ DeriveAddress \/ DeriveAgain \/ ConsumePermit \/ DelegateSession
    \/ RevokeSession \/ CreateAllowance \/ ReturnInstr

SpecInstr == InitInstr /\ [][NextInstr]_vars

-----------------------------------------------------------------------------
-----------------------------------------------------------------------------
(* The Ambient client, clients.ts *)

EXCHANGE_URL == "https://embindexer.net/ember/api/dev/v1/exchange"

FrontendMarket == <<"F","r","o","n","t","e","n","d","M","a","r","k","e","t">>

mapTifForAmbient(tif) == IF tif = Ioc \/ tif = FrontendMarket THEN Ioc ELSE Gtc

normalizeToHexArray(value) ==
    IF value.t = "array" THEN value.a ELSE <<value.s>>

\* envelope.expiresUnix = (nonce - nonce % 1000n) / 1000n + 60n
alignEnvelopeExpiry(envelope) ==
    LET nonce == FromLE(envelope.nonce.mag)
        baseNonce == nonce - (nonce % 1000)
    IN  [envelope EXCEPT !.expiresUnix = Big((baseNonce \div 1000) + 60)]

\* the markets and the program signPayloadWithKeypair registers
ClientMarkets ==
    <<[index |-> 0, symbol |-> <<"B", "T", "C", "-", "P", "E", "R", "P">>,
       marketId |-> BigV(Big(64)), baseDecimals |-> 8, quoteDecimals |-> 6]>>

ClientProgramId == KeyOf(0)

\* the output of signPayloadWithKeypair
SignedOutput(built, envelopes, signResult, signer, nonce) ==
    Ok([action |-> built.request.action,
        nonce |-> nonce,
        signature |-> normalizeToHexArray(Arr(signResult.ret.signatureList)),
        pubkey |-> signer.publicKey,
        envelopes |-> envelopes,
        oracle |-> signResult.oracle])

SignAligned(orc, built, envelopes, signer, nonce) ==
    SignedOutput(built, envelopes, signPermits(orc, Arr(envelopes), signer, "hex"),
                 signer, nonce)

\* what signPayloadWithKeypair returns, given what the adapter built
SignedPayload(orc, built, signer, nonce) ==
    IF ~built.status.ok THEN Throw(built.status.err)
    ELSE SignAligned(orc, built,
                     [i \in 1..Len(built.envelopes) |->
                         alignEnvelopeExpiry(built.envelopes[i])],
                     signer, nonce)

\* signPayloadWithKeypair(action, signer), t being Date.now()
signPayloadWithKeypair(orc, action, signer, t) ==
    SignedPayload(
        orc,
        buildPermitEnvelopesFromExchangeRequest(
            [action |-> action, nonce |-> Num(t)],
            createHyperliquidContext(
                ClientMarkets, ClientProgramId, signer.publicKey,
                [NoOptions EXCEPT !.clusterType = Val(ClusterType.Testnet)]),
            [i \in 1..(2 * MaxItems) |-> t]),
        signer, t)

\* loadKeypairFromDevkey(), devkeyData being extra.solanaWalletPrivateKey
loadKeypairFromDevkey(devkeyData) ==
    IF devkeyData = Undefined THEN Throw("Failed to load keypair from devkey.json")
    ELSE Ok(Keypair(devkeyData.v))

\* the action exchClient.order and orderWithDebug make of the first order
OrderActionOf(first, t) ==
    LET cloid == IF first.c # Undefined THEN first.c.s
                 ELSE BigToString(Big(t))
    IN  [ExchangeAction("order") EXCEPT
            !.a = first.a, !.b = first.b, !.p = first.p, !.s = first.s,
            !.r = first.r, !.c = Str(cloid),
            !.tif = IF first.t.limit # Undefined
                    THEN Val(mapTifForAmbient(first.t.limit.v.tif))
                    ELSE Undefined]

\* the request body of a signed payload
BodyOf(signed) ==
    [action |-> signed.action, nonce |-> signed.nonce,
     signature |-> signed.signature, pubkey |-> signed.pubkey]

OrderStatus(status) ==
    [response |-> [type |-> "order", data |-> [statuses |-> <<status>>]]]

\* a call up to its await of axios.post, given what the signing gave: the
\* body it posts, or the value it returns at once
Posting(signed, failed) ==
    IF signed.ok
    THEN [kind |-> "post", body |-> BodyOf(signed.v),
          envelopes |-> signed.v.envelopes, oracle |-> signed.v.oracle]
    ELSE [kind |-> "return", value |-> failed]

\* a call whose signing is outside every try: a throw of it leaves the call
Throwing(signed) ==
    IF signed.ok THEN Posting(signed, Null)
    ELSE [kind |-> "throw", err |-> signed.err]

\* the signing with the dev keypair, inside the try of the caller
DevSigned(orc, action, loaded, t) ==
    IF loaded.ok THEN signPayloadWithKeypair(orc, action, loaded.v, t) ELSE loaded

\* exchClient.order up to its await of axios.post: the body it posts, the
\* value it returns at once, or the error it throws
orderBegin(orc, req, kp, devkeyData, t) ==
    IF req.orders = <<>>
    THEN [kind |-> "return", value |-> OrderStatus([error |-> "No orders provided"])]
    ELSE IF kp # Null
    THEN Throwing(signPayloadWithKeypair(orc, OrderActionOf(req.orders[1], t),
                                         kp.v, t))
    ELSE Posting(DevSigned(orc, OrderActionOf(req.orders[1], t),
                           loadKeypairFromDevkey(devkeyData), t),
                 OrderStatus([error |-> "TypeError"]))

\* exchClient.order after axios.post has settled
orderEnd(response) ==
    CASE response = "networkError" -> OrderStatus([error |-> "Network Error"])
      [] response = "ok" -> OrderStatus([resting |-> "oid"])
      [] OTHER -> OrderStatus([error |-> "Unknown error"])

CancelStatus(statuses) ==
    [response |-> [type |-> "cancel", data |-> [statuses |-> statuses]]]

\* exchClient.cancel up to its await of axios.post
cancelBegin(orc, req, kp, devkeyData, t) ==
    IF kp # Null
    THEN Throwing(signPayloadWithKeypair(
                      orc, [ExchangeAction("cancel") EXCEPT !.cancels = Val(req.cancels)],
                      kp.v, t))
    ELSE Posting(DevSigned(orc,
                           [ExchangeAction("cancel") EXCEPT
                               !.cancels = Val(req.cancels)],
                           loadKeypairFromDevkey(devkeyData), t),
                 CancelStatus(<<[error |-> "No signing method available"]>>))

\* exchClient.cancel after axios.post has settled
cancelEnd(req, response) ==
    CASE response = "networkError" -> CancelStatus(<<[error |-> "Network Error"]>>)
      [] response = "ok" ->
            CancelStatus([i \in 1..Len(req.cancels) |-> [success |-> "oid"]])
      [] OTHER -> CancelStatus(<<[error |-> "Cancel failed"]>>)

\* the object {}
EmptyObject == [keys |-> <<>>]

\* what orderWithDebug returns from its catch
DebugError(message) ==
    [url |-> EXCHANGE_URL, requestBody |-> EmptyObject,
     mapped |-> OrderStatus([error |-> message]), rawResponse |-> Undefined,
     error |-> Val(message)]

\* the signing of orderWithDebug failed inside its try
DebugCaught(signed) ==
    Posting(signed, DebugError(IF signed.ok THEN "" ELSE signed.err))

\* orderWithDebug up to its await of axios.post
debugBegin(orc, req, kp, devkeyData, t) ==
    IF req.orders = <<>> THEN [kind |-> "return", value |-> DebugError("TypeError")]
    ELSE IF kp # Null
    THEN DebugCaught(signPayloadWithKeypair(orc, OrderActionOf(req.orders[1], t),
                                            kp.v, t))
    ELSE DebugCaught(DevSigned(orc, OrderActionOf(req.orders[1], t),
                               loadKeypairFromDevkey(devkeyData), t))

\* what orderWithDebug returns once exchClient.order has returned
DebugResult(body, mapped, data) ==
    [url |-> EXCHANGE_URL, requestBody |-> body, mapped |-> mapped,
     rawResponse |-> Val(data), error |-> Undefined]

-----------------------------------------------------------------------------
-----------------------------------------------------------------------------
(* Client scenario: the app calls exchClient.order, exchClient.cancel and  *)
(* orderWithDebug, with and without an injected keypair and a dev keypair  *)

LimitOf(tif) == [limit |-> Val([tif |-> tif]), trigger |-> Undefined]

\* the order of the debug panel
PanelOrder ==
    [a |-> Num(0), b |-> TRUE, p |-> Str(Chars(<<1, 3, 1, 4, 2, 5>>)),
     s |-> Str(<<"0", ".", "0", "0", "0", "2", "1">>), r |-> FALSE,
     c |-> Str(<<"4", "2">>), t |-> LimitOf(Ioc)]

ClientOrders ==
    {PanelOrder,
     [PanelOrder EXCEPT !.c = Undefined, !.t = LimitOf(FrontendMarket)],
     [PanelOrder EXCEPT !.t = [limit |-> Undefined, trigger |-> Val("tp")]],
     [PanelOrder EXCEPT !.a = Num(1)],
     [PanelOrder EXCEPT !.p = Str(<<"a", "b">>)]}

OrderRequests ==
    {[grouping |-> "na", orders |-> l] : l \in ListsUpTo(ClientOrders, 2)}

CancelRequests ==
    {[cancels |-> l] :
        l \in ListsUpTo({CancelItem(Num(0), Num(5), Undefined, Undefined),
                         CancelItem(Num(1), Num(5), Undefined, Undefined)}, 2)}

Responses == {"ok", "rejected", "networkError"}

InitClient ==
    /\ pc = "start" /\ env = None /\ keypair = 0 /\ bytes = None
    /\ decoded = None /\ permit = None /\ verdict = None /\ oracle = <<>>
    /\ now = 1000 /\ config = None /\ call = None /\ request = None
    /\ result = None /\ log = {} /\ configArg = None
    /\ platform = None /\ state = None /\ ambientKeypair = None
    /\ authorization = None /\ storage = None /\ isUserConnectingRef = FALSE
    /\ tasks = {} /\ panel = None /\ posted = <<>> /\ sessions = 0

clientRest ==
    <<env, keypair, bytes, decoded, permit, verdict, configArg, log, platform,
      state, authorization, storage, isUserConnectingRef, tasks, panel,
      sessions>>

\* the module is loaded: no keypair is injected; the Expo config holds a dev
\* key or none
LoadClient ==
    /\ pc = "start"
    /\ \E devkeyData \in {Undefined} \cup {Val(k) : k \in Keys} :
          config' = [extra |-> [solanaWalletPrivateKey |-> devkeyData]]
    /\ ambientKeypair' = Null
    /\ pc' = "ready"
    /\ UNCHANGED <<clientRest, oracle, now, call, request, result, posted>>

\* setAmbientKeypair(kp)
SetAmbientKeypair ==
    /\ pc = "ready"
    /\ \E k \in Keys : ambientKeypair' = Val(Keypair(k))
    /\ UNCHANGED <<clientRest, pc, oracle, now, config, call, request, result,
                   posted>>

\* time passes while a request is awaited
TickClient ==
    /\ pc \in {"orderPosted", "cancelPosted", "debugPosted", "debugOrderPosted"}
    /\ now < 1000 + MaxDrift
    /\ now' = now + 1
    /\ UNCHANGED <<clientRest, pc, oracle, config, call, request, result, posted,
                   ambientKeypair>>

\* a call has run up to the point b names: it returned, threw or posted
Began(fn, req, b, posting) ==
    /\ call' = [fn |-> fn, request |-> req, signer |-> ambientKeypair,
                nonces |-> IF b.kind = "post" THEN <<b.body.nonce>> ELSE <<>>]
    /\ IF b.kind = "post"
       THEN /\ pc' = posting
            /\ posted' = Append(posted, b.body)
            /\ request' = [body |-> b.body, envelopes |-> b.envelopes,
                         data |-> Undefined]
            /\ oracle' = b.oracle
            /\ result' = None
       ELSE /\ pc' = "returned"
            /\ result' = IF b.kind = "throw" THEN Throw(b.err) ELSE Ok(b.value)
            /\ UNCHANGED <<posted, request, oracle>>
    /\ UNCHANGED <<clientRest, now, config, ambientKeypair>>

Order ==
    /\ pc = "ready"
    /\ \E req \in OrderRequests :
          Began("order", req,
                orderBegin(oracle, req, ambientKeypair,
                           config.extra.solanaWalletPrivateKey, now),
                "orderPosted")

OrderResponse ==
    /\ pc = "orderPosted"
    /\ \E response \in Responses : result' = Ok(orderEnd(response))
    /\ pc' = "returned"
    /\ UNCHANGED <<clientRest, oracle, now, config, call, request, posted,
                   ambientKeypair>>

Cancel ==
    /\ pc = "ready"
    /\ \E req \in CancelRequests :
          Began("cancel", req,
                cancelBegin(oracle, req, ambientKeypair,
                            config.extra.solanaWalletPrivateKey, now),
                "cancelPosted")

CancelResponse ==
    /\ pc = "cancelPosted"
    /\ \E response \in Responses : result' = Ok(cancelEnd(call.request, response))
    /\ pc' = "returned"
    /\ UNCHANGED <<clientRest, oracle, now, config, call, request, posted,
                   ambientKeypair>>

OrderWithDebug ==
    /\ pc = "ready"
    /\ \E req \in OrderRequests :
          Began("orderWithDebug", req,
                debugBegin(oracle, req, ambientKeypair,
                           config.extra.solanaWalletPrivateKey, now),
                "debugPosted")

\* the post of orderWithDebug has settled with data, and exchClient.order
\* has run up to the point b names
DebugOrdered(data, b) ==
    IF b.kind = "post"
    THEN /\ pc' = "debugOrderPosted"
         /\ posted' = Append(posted, b.body)
         /\ request' = [request EXCEPT !.data = Val(data),
                                      !.envelopes = b.envelopes]
         /\ call' = [call EXCEPT !.nonces = Append(@, b.body.nonce)]
         /\ oracle' = b.oracle
         /\ result' = None
    ELSE /\ pc' = "returned"
         /\ result' = IF b.kind = "throw" THEN Ok(DebugError(b.err))
                      ELSE Ok(DebugResult(request.body, b.value, data))
         /\ UNCHANGED <<posted, request, call, oracle>>

DebugResponse ==
    /\ pc = "debugPosted"
    /\ \E response \in Responses :
          IF response = "networkError"
          THEN /\ pc' = "returned"
               /\ result' = Ok(DebugError("Network Error"))
               /\ UNCHANGED <<posted, request, call, oracle>>
          ELSE DebugOrdered(response,
                            orderBegin(oracle, call.request, ambientKeypair,
                                       config.extra.solanaWalletPrivateKey, now))
    /\ UNCHANGED <<clientRest, now, config, ambientKeypair>>

DebugOrderResponse ==
    /\ pc = "debugOrderPosted"
    /\ \E response \in Responses :
          result' = Ok(DebugResult(request.body, orderEnd(response),
                                   request.data.v))
    /\ pc' = "returned"
    /\ UNCHANGED <<clientRest, oracle, now, config, call, request, posted,
                   ambientKeypair>>

\* the caller has taken the result
ReturnClient ==
    /\ pc = "returned"
    /\ pc' = "ready" /\ call' = None /\ result' = None /\ request' = None
    /\ posted' = <<>> /\ oracle' = <<>> /\ now' = 1000
    /\ UNCHANGED <<clientRest, config, ambientKeypair>>

NextClient ==
    \/ LoadClient \/ SetAmbientKeypair \/ TickClient \/ Order \/ OrderResponse
    \/ Cancel \/ CancelResponse \/ OrderWithDebug \/ DebugResponse
    \/ DebugOrderResponse \/ ReturnClient

SpecClient == InitClient /\ [][NextClient]_vars

-----------------------------------------------------------------------------
-----------------------------------------------------------------------------
(* The session provider and the order panel, FogoSessionProvider.tsx and   *)
(* App.tsx                                                                 *)


StateType ==
    [Initializing |-> "Initializing", NotEstablished |-> "NotEstablished",
     WalletConnecting |-> "WalletConnecting",
     CheckingStoredSession |-> "CheckingStoredSession",
     CreatingAdapter |-> "CreatingAdapter",
     EstablishingSession |-> "EstablishingSession",
     Established |-> "Established", UpdatingLimits |-> "UpdatingLimits"]

\* SessionState: the states without a session, and the two that hold one
SessionState(type) == [type |-> type, session |-> 0, updateLimitsError |-> FALSE]

Established(session, updateLimitsError) ==
    [type |-> StateType.Established, session |-> session,
     updateLimitsError |-> updateLimitsError]

UpdatingLimits(session) ==
    [type |-> StateType.UpdatingLimits, session |-> session,
     updateLimitsError |-> FALSE]

\* the account a wallet authorization selects
WalletAuthorization == [selectedAccount |-> KeyOf(0)]

\* the keypair setSessionState makes of a session's key
SessionKeypair(session) == Keypair(session)

\* OrderDebugPanel: isConnected
isConnected(st) ==
    st.type = StateType.Established \/ st.type = StateType.UpdatingLimits

\* OrderDebugPanel: clearDebug
clearDebug(p) ==
    [p EXCEPT !.requestBody = Null, !.rawResponse = Null, !.error = Null,
              !.isPlacing = FALSE]

\* OrderDebugPanel: the effect on [isConnected], run when the provider's
\* state has become st
Rendered(p, st) ==
    [(IF p.wasConnectedRef /\ ~isConnected(st) THEN clearDebug(p) ELSE p)
        EXCEPT !.wasConnectedRef = isConnected(st)]

\* the effect on [mobileWallet.isLoading, mobileWallet.authorization]:
\* tryAutoRestore, no session being stored
tryAutoRestore(st, connecting, os, auth) ==
    IF connecting THEN st
    ELSE IF os = "ios" THEN SessionState(StateType.NotEstablished)
    ELSE IF auth # Undefined /\ auth # Null THEN st
    ELSE SessionState(StateType.NotEstablished)

\* fetchAuthorization: what the query reads from the storage
fetchAuthorization(item) == IF item = Undefined THEN Null ELSE item

\* what AsyncStorage holds under "authorization-cache" when the app starts:
\* only mobileWallet.connect, the Android path, writes an authorization
CachedAuthorizations(os) ==
    IF os = "ios" THEN {Undefined, Null}
    ELSE {Undefined, Null, Val(WalletAuthorization)}

Task(op, session) == [op |-> op, session |-> session]

\* the provider is constructed, the panel holds nothing; the platform and
\* what the storage holds show at the first effect
InitApp ==
    /\ pc = "mounting" /\ env = None /\ keypair = 0 /\ bytes = None
    /\ decoded = None /\ permit = None /\ verdict = None /\ oracle = <<>>
    /\ now = 0 /\ config = None /\ call = None /\ request = None
    /\ result = None /\ log = {} /\ configArg = None
    /\ platform = None /\ storage = None /\ posted = <<>> /\ sessions = 0
    /\ state = SessionState(StateType.Initializing)
    /\ ambientKeypair = Null
    /\ authorization = Undefined
    /\ isUserConnectingRef = FALSE
    /\ tasks = {}
    /\ panel = [requestBody |-> Null, rawResponse |-> Null, error |-> Null,
                isPlacing |-> FALSE, wasConnectedRef |-> FALSE]

appRest ==
    <<pc, env, keypair, bytes, decoded, permit, verdict, oracle, now, config,
      call, request, result, log, configArg, posted>>

\* the provider's state becomes st: the panel renders and runs its effect
SetState(st) ==
    /\ state' = st
    /\ panel' = Rendered(panel, st)

\* the first effects after the first render: the query starts to load and
\* tryAutoRestore runs
Mount ==
    /\ pc = "mounting"
    /\ pc' = "running"
    /\ \E os \in {"ios", "android"} :
       \E item \in CachedAuthorizations(os) :
          /\ platform' = os
          /\ storage' = item
          /\ SetState(tryAutoRestore(state, isUserConnectingRef, os, authorization))
    /\ tasks' = {Task("fetch", 0)}
    /\ UNCHANGED <<env, keypair, bytes, decoded, permit, verdict, oracle, now,
                   config, call, request, result, log, configArg, posted,
                   ambientKeypair, authorization, isUserConnectingRef, sessions>>

\* the wallet-authorization query settles; the effect runs when what it
\* gives has changed
FetchSettled ==
    /\ Task("fetch", 0) \in tasks
    /\ tasks' = tasks \ {Task("fetch", 0)}
    /\ authorization' = fetchAuthorization(storage)
    /\ SetState(IF authorization' # authorization
                THEN tryAutoRestore(state, isUserConnectingRef, platform,
                                    authorization')
                ELSE state)
    /\ UNCHANGED <<appRest, platform, storage, ambientKeypair,
                   isUserConnectingRef, sessions>>

\* WalletConnector: Connect pressed, establishSession runs up to getAdapter
EstablishSession ==
    /\ pc = "running"
    /\ state.type = StateType.NotEstablished
    /\ isUserConnectingRef' = TRUE
    /\ SetState(SessionState(StateType.CreatingAdapter))
    /\ tasks' = tasks \cup {Task("getAdapter", 0)}
    /\ UNCHANGED <<appRest, platform, storage, ambientKeypair, authorization,
                   sessions>>

\* establishSession leaves through its catch
EstablishFailed ==
    /\ SetState(SessionState(StateType.NotEstablished))
    /\ isUserConnectingRef' = FALSE

\* getAdapter settles
AdapterSettled ==
    /\ Task("getAdapter", 0) \in tasks
    /\ \E created \in BOOLEAN :
          IF created
          THEN /\ SetState(SessionState(StateType.WalletConnecting))
               /\ tasks' = (tasks \ {Task("getAdapter", 0)}) \cup {Task("connect", 0)}
               /\ UNCHANGED isUserConnectingRef
          ELSE /\ EstablishFailed
               /\ tasks' = tasks \ {Task("getAdapter", 0)}
    /\ UNCHANGED <<appRest, platform, storage, ambientKeypair, authorization,
                   sessions>>

\* phantomAdapter.connect (iOS) or mobileWallet.connect (Android) settles;
\* the latter has persisted the authorization and invalidated the query
ConnectSettled ==
    /\ Task("connect", 0) \in tasks
    /\ \E connected \in BOOLEAN :
          IF connected
          THEN /\ SetState(SessionState(StateType.EstablishingSession))
               /\ tasks' = ((tasks \ {Task("connect", 0)})
                               \cup {Task("establishSession", 0)})
                               \cup (IF platform = "ios" THEN {}
                                     ELSE {Task("fetch", 0)})
               /\ storage' = IF platform = "ios" THEN storage
                             ELSE Val(WalletAuthorization)
               /\ UNCHANGED isUserConnectingRef
          ELSE /\ EstablishFailed
               /\ tasks' = tasks \ {Task("connect", 0)}
               /\ UNCHANGED storage
    /\ UNCHANGED <<appRest, platform, ambientKeypair, authorization, sessions>>

\* establishSessionImpl settles: Success calls setSessionState, Failed calls
\* endSession, a throw is caught
EstablishSettled ==
    /\ Task("establishSession", 0) \in tasks
    /\ \E outcome \in {"Success", "Failed", "throw"} :
          CASE outcome = "Success" ->
                  /\ sessions < MaxSessions
                  /\ sessions' = sessions + 1
                  /\ tasks' = (tasks \ {Task("establishSession", 0)})
                                 \cup {Task("export", sessions + 1)}
                  /\ isUserConnectingRef' = FALSE
                  /\ UNCHANGED <<state, panel>>
            [] outcome = "Failed" ->
                  /\ tasks' = (tasks \ {Task("establishSession", 0)})
                                 \cup {Task("persist", 0)}
                  /\ isUserConnectingRef' = FALSE
                  /\ UNCHANGED <<state, panel, sessions>>
            [] OTHER ->
                  /\ EstablishFailed
                  /\ tasks' = tasks \ {Task("establishSession", 0)}
                  /\ UNCHANGED sessions
    /\ UNCHANGED <<appRest, platform, storage, ambientKeypair, authorization>>

\* setSessionState: ed25519PrivateKey64 settles; the keypair is injected
\* unless the export failed, and the state becomes Established
ExportSettled ==
    \E t \in tasks :
        /\ t.op = "export"
        /\ tasks' = tasks \ {t}
        /\ \E exported \in BOOLEAN :
              ambientKeypair' = IF exported THEN Val(SessionKeypair(t.session))
                                ELSE ambientKeypair
        /\ SetState(Established(t.session, FALSE))
        /\ UNCHANGED <<appRest, platform, storage, authorization,
                       isUserConnectingRef, sessions>>

\* WalletConnector: Disconnect pressed, state.endSession() runs
EndSession ==
    /\ state.type = StateType.Established
    /\ tasks' = tasks \cup {Task("persist", state.session)}
    /\ UNCHANGED <<appRest, platform, state, panel, storage, ambientKeypair,
                   authorization, isUserConnectingRef, sessions>>

\* persistAuthorization(null) settles and the query is invalidated
PersistSettled ==
    \E t \in tasks :
        /\ t.op = "persist"
        /\ tasks' = (tasks \ {t}) \cup {Task("fetch", 0)}
        /\ storage' = Null
        /\ UNCHANGED <<appRest, platform, state, panel, ambientKeypair,
                       authorization, isUserConnectingRef, sessions>>

\* state.setLimits() of an Established state
SetLimits ==
    /\ state.type = StateType.Established
    /\ tasks' = tasks \cup {Task("replaceSession", state.session)}
    /\ SetState(UpdatingLimits(state.session))
    /\ UNCHANGED <<appRest, platform, storage, ambientKeypair, authorization,
                   isUserConnectingRef, sessions>>

\* replaceSession settles
ReplaceSettled ==
    \E t \in tasks :
        /\ t.op = "replaceSession"
        /\ \E outcome \in {"Success", "Failed", "throw"} :
              IF outcome = "Success"
              THEN /\ sessions < MaxSessions
                   /\ sessions' = sessions + 1
                   /\ tasks' = (tasks \ {t}) \cup {Task("export", sessions + 1)}
                   /\ UNCHANGED <<state, panel>>
              ELSE /\ tasks' = tasks \ {t}
                   /\ SetState(Established(t.session, TRUE))
                   /\ UNCHANGED sessions
        /\ UNCHANGED <<appRest, platform, storage, ambientKeypair, authorization,
                       isUserConnectingRef>>

\* what orderWithDebug may resolve to
DebugResults ==
    {DebugError("Network Error"),
     DebugResult([nonce |-> 1000], OrderStatus([resting |-> "oid"]), "ok")}

\* OrderDebugPanel: Place Order pressed, placeOrder runs up to its await
PressPlaceOrder ==
    /\ isConnected(state)
    /\ Task("orderWithDebug", 0) \notin tasks
    /\ panel' = [clearDebug(panel) EXCEPT !.isPlacing = TRUE]
    /\ tasks' = tasks \cup {Task("orderWithDebug", 0)}
    /\ UNCHANGED <<appRest, platform, state, storage, ambientKeypair,
                   authorization, isUserConnectingRef, sessions>>

\* orderWithDebug settles and placeOrder runs to its end
OrderSettled ==
    /\ Task("orderWithDebug", 0) \in tasks
    /\ tasks' = tasks \ {Task("orderWithDebug", 0)}
    /\ \E r \in DebugResults :
          panel' = [panel EXCEPT
                       !.requestBody = Val(r.requestBody),
                       !.rawResponse = Val(Coalesce(r.rawResponse, Val(r.mapped)).v),
                       !.error = IF r.error # Undefined THEN r.error ELSE @,
                       !.isPlacing = FALSE]
    /\ UNCHANGED <<appRest, platform, state, storage, ambientKeypair,
                   authorization, isUserConnectingRef, sessions>>

\* OrderDebugPanel: Clear API data pressed
ClearDebug ==
    /\ isConnected(state)
    /\ panel' = clearDebug(panel)
    /\ UNCHANGED <<appRest, platform, state, storage, ambientKeypair,
                   authorization, isUserConnectingRef, tasks, sessions>>

NextApp ==
    \/ Mount \/ FetchSettled \/ EstablishSession \/ AdapterSettled
    \/ ConnectSettled \/ EstablishSettled \/ ExportSettled \/ EndSession
    \/ PersistSettled \/ SetLimits \/ ReplaceSettled \/ PressPlaceOrder
    \/ OrderSettled \/ ClearDebug

SpecApp == InitApp /\ [][NextApp]_vars

\* every operation the app awaits settles
SpecAppLive ==
    /\ SpecApp
    /\ WF_vars(Mount) /\ WF_vars(FetchSettled) /\ WF_vars(AdapterSettled)
    /\ WF_vars(ConnectSettled) /\ WF_vars(EstablishSettled)
    /\ WF_vars(ExportSettled) /\ WF_vars(PersistSettled)
    /\ WF_vars(ReplaceSettled) /\ WF_vars(OrderSettled)

-----------------------------------------------------------------------------
(* Claims about the codec *)

NameOf(enum, number) == CHOOSE name \in DOMAIN enum : enum[name] = number
AsNull(x) == IF x.t = "val" THEN x ELSE Null

OptionalFields(action) ==
    {"price", "triggerPrice", "healthFloor"}
        \cup (IF action.type = PermitActionType.CancelAll THEN {"marketId"} ELSE {})

\* a tagged union {type, fields} keyed by its variant's name instead
WireUnion(enum, u) == NameOf(enum, u.type) :> [f \in DOMAIN u \ {"type"} |-> u[f]]

WireAction(a) ==
    NameOf(PermitActionType, a.type) :>
        [f \in DOMAIN a \ {"type"} |->
            IF f = "tif" THEN WireUnion(TimeInForceCode, a[f])
            ELSE IF f \in OptionalFields(a) THEN AsNull(a[f])
            ELSE a[f]]

\* the envelope's own field values, unions keyed by variant name and absent
\* optional fields null
WireForm(e) ==
    [e EXCEPT !.action = WireAction(@),
              !.mode = WireUnion(ReplayModeType, @),
              !.relayer = AsNull(@)]

U(v, n) == [i \in 1..n |-> IF i <= Len(v.mag) THEN v.mag[i] ELSE 0]
\* the 8 little-endian two's complement bytes of a signed bigint
I64(v) == TwosBytes(v, 8)

OptBytes(x, payload) == IF x.t = "val" THEN <<1>> \o payload ELSE <<0>>
BoolByte(x) == IF x THEN 1 ELSE 0

C5_Tif(tif) ==
    <<tif.type>>
        \o (IF tif.type = TimeInForceCode.GTT THEN U(tif.timestamp, 8) ELSE <<>>)

C5_HealthFloor(h) == OptBytes(h, <<h.v.metric>> \o I64(h.v.min))

C5_Order(a) ==
    <<a.side>> \o U(a.qty, 8) \o OptBytes(a.price, U(a.price.v, 8))
        \o C5_Tif(a.tif) \o <<BoolByte(a.reduceOnly)>>
        \o OptBytes(a.triggerPrice, U(a.triggerPrice.v, 8))
        \o <<a.triggerType>> \o C5_HealthFloor(a.healthFloor)

C5_Action(a) ==
    <<a.type>> \o
    CASE a.type = PermitActionType.Place ->
            U(a.marketId, 8) \o U(a.clientId, 16) \o C5_Order(a)
      [] a.type = PermitActionType.CancelById ->
            U(a.marketId, 8) \o U(a.orderId, 8)
      [] a.type = PermitActionType.CancelByClientId ->
            U(a.marketId, 8) \o U(a.clientId, 16)
      [] a.type = PermitActionType.CancelAll ->
            OptBytes(a.marketId, U(a.marketId.v, 8))
      [] a.type = PermitActionType.Modify ->
            U(a.marketId, 8) \o U(a.cancelOrderId, 8) \o U(a.newClientId, 16)
                \o C5_Order(a)
      [] a.type = PermitActionType.Withdraw ->
            U(a.amount, 8) \o KeyBytes(a.toOwner) \o C5_HealthFloor(a.healthFloor)
      [] a.type = PermitActionType.SetLeverage ->
            U(a.marketId, 8) \o LE(a.targetLeverageBps, 2)
                \o C5_HealthFloor(a.healthFloor)
      [] a.type = PermitActionType.Noop -> <<>>
      [] a.type = PermitActionType.Faucet ->
            U(a.marketId, 8) \o U(a.amount, 8) \o KeyBytes(a.recipient)

C5_Mode(m) ==
    <<m.type>> \o
    CASE m.type = ReplayModeType.Sequence -> U(m.expected, 8)
      [] m.type = ReplayModeType.Nonce -> m.salt
      [] m.type = ReplayModeType.Allowance -> m.id
      [] m.type = ReplayModeType.HlWindow -> <<m.k>>

\* C5: the encoding is the plain concatenation domain (34 bytes, programId
\* first), authorizer, keyType, action, mode, expiresUnix, maxFeeQuote, relayer,
\* nonce; a union is its declared number in one byte, then its variant's fields;
\* an optional field is 0, or 1 and the value.
C5_EncodingIsConcatenation ==
    pc = "encoded" =>
        /\ Len(bytes) >= 34
        /\ SubSeq(bytes, 1, 32) = KeyBytes(env.domain.programId)
        /\ bytes = SubSeq(bytes, 1, 34) \o KeyBytes(env.authorizer)
                     \o <<env.keyType>> \o C5_Action(env.action)
                     \o C5_Mode(env.mode) \o I64(env.expiresUnix)
                     \o U(env.maxFeeQuote, 8)
                     \o OptBytes(env.relayer, KeyBytes(env.relayer.v))
                     \o U(env.nonce, 8)

C5_Witness ==
    /\ pc = "encoded"
    /\ env.action.type = PermitActionType.Place
    /\ env.action.tif.type = TimeInForceCode.GTC
    /\ env.action.price.t = "val" /\ env.action.healthFloor.t = "undefined"
    /\ env.mode.type = ReplayModeType.HlWindow
    /\ env.relayer.t = "val"
    /\ Len(bytes) = 34 + 32 + 1 + (1 + 8 + 16 + 1 + 8 + 9 + 1 + 1 + 1 + 1 + 1)
                       + 2 + 8 + 8 + 33 + 8

\* C6 (as stated): byte 32 is domain.version and byte 33 the cluster.
C6_VersionThenCluster ==
    pc = "encoded" =>
        bytes[33] = env.domain.version /\ bytes[34] = env.domain.cluster

\* C6 (amended): the domain is programId, then the cluster byte, then the
\* version byte: byte 32 is the cluster and byte 33 is domain.version.
C6_ClusterThenVersion ==
    pc = "encoded" =>
        /\ SubSeq(bytes, 1, 32) = KeyBytes(env.domain.programId)
        /\ bytes[33] = env.domain.cluster
        /\ bytes[34] = env.domain.version

C6_Witness ==
    pc = "encoded" /\ env.domain.cluster = ClusterType.Localnet
        /\ env.domain.version = 1 /\ bytes[33] = 3 /\ bytes[34] = 1

-----------------------------------------------------------------------------
(* Claims about the signer *)

\* C3: a permit as returned by sign verifies; once its envelope is replaced by
\* one whose encoding differs (signature and public key kept), it does not.
C3_VerifyAcceptsSignedOnly ==
    /\ pc = "verified" => verdict = TRUE
    /\ (pc = "verifiedTampered"
           /\ encodePermitEnvelope(permit.envelope)
                 # encodePermitEnvelope(result.envelope))
        => verdict = FALSE

C3_Witness ==
    /\ pc = "verifiedTampered"
    /\ Len(oracle) = 2
    /\ Len(encodePermitEnvelope(permit.envelope))
          = Len(encodePermitEnvelope(result.envelope))
    /\ encodePermitEnvelope(permit.envelope) # encodePermitEnvelope(result.envelope)
    /\ verdict = FALSE

U16At(d, off) == d[off + 1] + 256 * d[off + 2]

\* C4: the verification instruction's data is 112 + n bytes: 1, the u16 fields
\* 16, 0, 80, 0, 112, n, 0, a zero byte, then S at 16, P at 80 and M at 112.
C4_InstructionLayout ==
    pc = "signed" =>
        LET d == permit.verifyInstruction.data
            M == encodePermitEnvelope(permit.envelope)
            n == Len(M)
        IN  /\ Len(d) = 112 + n
            /\ d[1] = 1
            /\ U16At(d, 1) = 16 /\ U16At(d, 3) = 0
            /\ U16At(d, 5) = 80 /\ U16At(d, 7) = 0
            /\ U16At(d, 9) = 112 /\ U16At(d, 11) = n /\ U16At(d, 13) = 0
            /\ d[16] = 0
            /\ SubSeq(d, 17, 80) = permit.signature
            /\ SubSeq(d, 81, 112) = KeyBytes(permit.publicKey)
            /\ SubSeq(d, 113, 112 + n) = M

C4_Witness ==
    /\ pc = "signed"
    /\ Len(permit.signature) = 64
    /\ Len(permit.verifyInstruction.data) >= 112 + 190
    /\ permit.verifyInstruction.data[12] = Len(permit.verifyInstruction.data) - 112

\* C7: signWithSession(e, s) returns e with authorizer replaced by the session
\* public key, that key as publicKey and a signature verify accepts; e itself
\* is as it was.
C7_SessionPermit ==
    (pc = "signed" /\ call.op = "signWithSession") =>
        /\ permit.envelope = [call.envelope EXCEPT !.authorizer = keypair.publicKey]
        /\ permit.publicKey = keypair.publicKey
        /\ naclVerify(oracle, encodePermitEnvelope(permit.envelope),
                      permit.signature, KeyBytes(keypair.publicKey))
        /\ verify(oracle, permit)
        /\ env = call.envelope

C7_Witness ==
    /\ pc = "signed" /\ call.op = "signWithSession"
    /\ call.envelope.authorizer # keypair.publicKey
    /\ permit.envelope.authorizer = keypair.publicKey
    /\ env.authorizer # keypair.publicKey

-----------------------------------------------------------------------------
(* Claims about the builder *)

\* C8: for a constructor called while the clock reads t: nonce is t unless one
\* is supplied (0 included), expiresUnix is floor(t/1000) plus the supplied
\* expiresIn or else the configured default (60 when unconfigured), keyType is
\* Ed25519, domain is {configured programId, 1, configured cluster},
\* maxFeeQuote is the configured fee cap, relayer is the supplied one or absent.
C8_BuilderDefaults ==
    (pc = "built" /\ call.t1 = call.t2) =>
        LET t == call.t1
            p == call.params
        IN  /\ result.nonce = IF p.nonce.t = "val" THEN p.nonce.v ELSE Big(t)
            /\ result.expiresUnix =
                  Big((t \div 1000)
                        + (IF p.expiresIn.t = "val" THEN p.expiresIn.v
                           ELSE IF configArg.defaultExpiry.t = "val"
                                THEN configArg.defaultExpiry.v
                           ELSE 60))
            /\ result.keyType = KeyType.Ed25519
            /\ result.domain = [programId |-> configArg.programId, version |-> 1,
                                cluster |-> config.cluster]
            /\ configArg.cluster.t = "val" => config.cluster = configArg.cluster.v
            /\ result.maxFeeQuote = config.defaultMaxFee
            /\ configArg.defaultMaxFee.t = "val"
                  => config.defaultMaxFee = configArg.defaultMaxFee.v
            /\ result.relayer = p.relayer

C8_Witness ==
    /\ pc = "built" /\ call.t1 = call.t2 /\ call.t1 = 61999
    /\ call.op = "withdraw"
    /\ call.params.nonce = Val(Big(0)) /\ result.nonce = Big(0)
    /\ call.params.expiresIn.t = "undefined"
    /\ configArg.defaultExpiry.t = "undefined"
    /\ result.expiresUnix = Big(121)
    /\ call.params.relayer.t = "undefined"

\* C9: every constructor takes an optional replayMode, and the envelope's mode
\* is the supplied replayMode whenever one is given.
C9_ReplayModeHonoured ==
    (pc = "built" /\ call.params.replayMode.t = "val") =>
        result.mode = call.params.replayMode.v

-----------------------------------------------------------------------------
(* Claims about the exchange adapter *)

BatchKinds == {"batchOrder", "cancel", "cancelByCloid", "modifyBatch"}

\* the sub-items of a batch-style action
SubItems(action) ==
    Coalesce(CASE action.type = "batchOrder" -> action.orders
               [] action.type = "modifyBatch" -> action.modifies
               [] OTHER -> action.cancels,
             Val(<<>>)).v

\* the registered market an identifier names
MarketNamed(identifier) ==
    CHOOSE m \in {Markets[k] : k \in 1..Len(Markets)} :
        identifier = Num(m.index) \/ identifier = Str(m.symbol)

\* the permit action is the one an order on market m asks for
CarriesOrder(order, m, permitAction) ==
    /\ permitAction.marketId = BigInt(m.marketId).v
    /\ permitAction.side = (IF order.b THEN 0 ELSE 1)
    /\ permitAction.reduceOnly = order.r
    /\ permitAction.qty = decimalToFixed(order.s, m.baseDecimals).v
    /\ permitAction.price = Val(decimalToFixed(order.p, m.quoteDecimals).v)

\* the permit action is the one built from the sub-item of a batch of the kind
Carries(kind, item, permitAction) ==
    CASE kind = "batchOrder" ->
            /\ permitAction.type = PermitActionType.Place
            /\ CarriesOrder(item, MarketNamed(item.a), permitAction)
      [] kind = "modifyBatch" ->
            /\ permitAction.type = PermitActionType.Modify
            /\ permitAction.cancelOrderId = BigInt(item.oid).v
            /\ CarriesOrder(item.order, MarketNamed(item.order.a), permitAction)
      [] kind = "cancel" ->
            /\ permitAction.type = PermitActionType.CancelById
            /\ permitAction.marketId = BigInt(MarketNamed(item.a).marketId).v
            /\ permitAction.orderId = BigInt(item.o).v
      [] kind = "cancelByCloid" ->
            /\ permitAction.type = PermitActionType.CancelByClientId
            /\ permitAction.marketId = BigInt(MarketNamed(item.asset).marketId).v
            /\ permitAction.clientId = BigInt(item.cloid).v

\* C10: a call for a batch-style request (batchOrder, cancel, cancelByCloid,
\* modifyBatch) with n sub-items and base nonce N that returns, returns
\* exactly n envelopes in input order; the i-th (0-based) carries the action
\* built from the i-th sub-item and nonce N + i, so the nonces of one call are
\* strictly increasing and pairwise distinct.
C10_BatchNonces ==
    (pc = "built" /\ call.request.action.type \in BatchKinds /\ result.status.ok) =>
        LET items == SubItems(call.request.action)
            N == BigInt(call.request.nonce).v
        IN  /\ Len(result.envelopes) = Len(items)
            /\ \A i \in 1..Len(items) :
                  /\ result.envelopes[i].nonce = BigAdd(N, i - 1)
                  /\ Carries(call.request.action.type, items[i],
                             result.envelopes[i].action)
            /\ \A i, j \in 1..Len(items) :
                  i < j => /\ BigLess(result.envelopes[i].nonce,
                                      result.envelopes[j].nonce)
                           /\ result.envelopes[i].nonce # result.envelopes[j].nonce

C10_Witness ==
    /\ pc = "built" /\ result.status.ok
    /\ call.request.action.type = "batchOrder"
    /\ call.request.action.orders = Val(<<OrderPlain, OrderBare, OrderNamed>>)
    /\ call.request.nonce = BigV(BigOf(FALSE, [i \in 1..8 |-> 255]))
    /\ Len(result.envelopes) = 3
    /\ result.envelopes[1].nonce = BigOf(FALSE, [i \in 1..8 |-> 255])
    /\ result.envelopes[2].nonce = BigOf(FALSE, <<0, 0, 0, 0, 0, 0, 0, 0, 1>>)
    /\ result.envelopes[3].nonce = BigOf(FALSE, <<1, 0, 0, 0, 0, 0, 0, 0, 1>>)
    /\ result.envelopes[1].action.marketId = Big(64)
    /\ result.envelopes[2].action.marketId = Big(65)
    /\ result.envelopes[2].action.side = 1

-----------------------------------------------------------------------------
(* Claims about sequences of operations *)

-----------------------------------------------------------------------------
(* Claims about decimalToFixed *)

RECURSIVE Pow10(_)
Pow10(n) == IF n = 0 THEN 1 ELSE 10 * Pow10(n - 1)

RECURSIVE NumberOf(_)
\* the number a digit string writes
NumberOf(ds) ==
    IF ds = <<>> THEN 0 ELSE 10 * NumberOf(SubSeq(ds, 1, Len(ds) - 1)) + ds[Len(ds)]

\* floor(|v| * 10^d) for the decimal v of an input
ScaledMagnitude(input) ==
    NumberOf(input.whole) * Pow10(input.decimals)
        + ((NumberOf(input.fraction) * Pow10(input.decimals))
             \div Pow10(Len(input.fraction)))

\* the number a bigint holds
NumberOfBig(b) == IF b.neg THEN 0 - FromLE(b.mag) ELSE FromLE(b.mag)

\* C11: for a decimal string (optional sign, whole digits, optional fraction
\* digits) and d decimals, decimalToFixed returns the value times 10^d
\* truncated toward zero: magnitude floor(|v| * 10^d), negated for a negative
\* input; ("131425", 6) gives 131425000000, ("0.00021", 8) gives 21000 and
\* ("-1.5", 2) gives -150.
C11_TruncatesTowardZero ==
    pc = "converted" =>
        /\ result.ok
        /\ call.input \notin DecimalExamples =>
              NumberOfBig(result.v) =
                  (IF call.input.sign = <<"-">> THEN 0 - ScaledMagnitude(call.input)
                   ELSE ScaledMagnitude(call.input))
        /\ call.value = <<"1", "3", "1", "4", "2", "5">> /\ call.input.decimals = 6 =>
              BigToString(result.v)
                  = <<"1", "3", "1", "4", "2", "5", "0", "0", "0", "0", "0", "0">>
        /\ call.value = <<"0", ".", "0", "0", "0", "2", "1">>
              /\ call.input.decimals = 8 =>
              NumberOfBig(result.v) = 21000
        /\ call.value = <<"-", "1", ".", "5">> /\ call.input.decimals = 2 =>
              NumberOfBig(result.v) = 0 - 150

C11_Witness ==
    /\ pc = "converted"
    /\ call.value = <<"-", "9", ".", "5", "9">> /\ call.input.decimals = 1
    /\ NumberOfBig(result.v) = 0 - 95

-----------------------------------------------------------------------------
(* Claims about single requests to the exchange adapter *)

\* the order of an order request: action.order, or else the action itself
OrderOf(action) == IF action.order.t = "val" THEN action.order.v ELSE action

\* C12: an order request for market index 0 (8 base decimals, 6 quote
\* decimals) with price "131425", size "0.00021", buy side and time-in-force
\* "Ioc" yields exactly one envelope; its action is Place with qty 21000,
\* price 131425000000, tif IOC, side 0 and the registered market's id, and its
\* nonce is the request's nonce.
C12_ExampleOrder ==
    (/\ pc = "built"
     /\ call.request.action.type = "order"
     /\ OrderOf(call.request.action).a = Num(0)
     /\ OrderOf(call.request.action).p = Str(<<"1", "3", "1", "4", "2", "5">>)
     /\ OrderOf(call.request.action).s = Str(<<"0", ".", "0", "0", "0", "2", "1">>)
     /\ OrderOf(call.request.action).b
     /\ OrderOf(call.request.action).tif = Val(<<"I", "o", "c">>)) =>
        /\ result.status.ok
        /\ Len(result.envelopes) = 1
        /\ result.envelopes[1].action.type = PermitActionType.Place
        /\ result.envelopes[1].action.qty = Big(21000)
        /\ result.envelopes[1].action.price
              = Val(BigOf(FALSE, <<64, 90, 138, 153, 30>>))
        /\ result.envelopes[1].action.tif = [type |-> TimeInForceCode.IOC]
        /\ result.envelopes[1].action.side = 0
        /\ result.envelopes[1].action.marketId = Big(64)
        /\ result.envelopes[1].nonce = BigInt(call.request.nonce).v

C12_Witness ==
    /\ pc = "built"
    /\ call.request.action.type = "order"
    /\ call.request.action.order = Undefined
    /\ call.request.action.a = Num(0)
    /\ call.request.action.p = Str(<<"1", "3", "1", "4", "2", "5">>)
    /\ call.request.action.tif = Val(<<"I", "o", "c">>)
    /\ call.request.nonce = Num(1000)
    /\ Len(result.envelopes) = 1
    /\ result.envelopes[1].action.qty = Big(21000)
    /\ result.envelopes[1].nonce = Big(1000)

-----------------------------------------------------------------------------
(* Claims about client order ids *)

\* the orders of an order or batchOrder request, in input order
OrdersOf(action) ==
    IF action.type = "order" THEN <<OrderOf(action)>>
    ELSE Coalesce(action.orders, Val(<<>>)).v

\* a string of decimal digits only
IsPlainNumber(str) ==
    str # <<>> /\ \A i \in 1..Len(str) : str[i] \in {Digits[k] : k \in 1..10}

RECURSIVE ValueOfDigits(_)
ValueOfDigits(str) ==
    IF str = <<>> THEN 0
    ELSE 10 * ValueOfDigits(SubSeq(str, 1, Len(str) - 1))
            + ((CHOOSE k \in 1..10 : Digits[k] = str[Len(str)]) - 1)

RECURSIVE ValueOfBytes(_)
\* the unsigned integer whose big-endian digits are the bytes of str
ValueOfBytes(str) ==
    IF str = <<>> THEN 0
    ELSE 256 * ValueOfBytes(SubSeq(str, 1, Len(str) - 1)) + CharCode(str[Len(str)])

\* the client id of a client order id string
ClientIdOfString(str) ==
    Big(IF IsPlainNumber(str) THEN ValueOfDigits(str) ELSE ValueOfBytes(str))

C14_CancelMatchesPlace ==
    (/\ pc = "built"
     /\ call.request.action.type = "cancelByCloid"
     /\ \A i \in 1..Len(SubItems(call.request.action)) :
          /\ SubItems(call.request.action)[i].cloid.t = "string"
          /\ resolveMarket(SubItems(call.request.action)[i].asset, config).ok) =>
        /\ result.status.ok
        /\ \A i \in 1..Len(SubItems(call.request.action)) :
              result.envelopes[i].action.clientId
                  = ensureClientId([c |-> SubItems(call.request.action)[i].cloid],
                                   0).v

-----------------------------------------------------------------------------
(* Claims about time-in-force strings *)

LowerCase(ch) ==
    CASE ch = "G" -> "g" [] ch = "T" -> "t" [] ch = "C" -> "c" [] ch = "I" -> "i"
      [] ch = "O" -> "o" [] ch = "A" -> "a" [] ch = "L" -> "l" [] OTHER -> ch

ToLowerCase(str) == [i \in 1..Len(str) |-> LowerCase(str[i])]

\* the time-in-force a string names when letter case is ignored
TifNamed(str) ==
    CASE ToLowerCase(str) = <<"g", "t", "c">> -> Val(TimeInForceCode.GTC)
      [] ToLowerCase(str) = <<"i", "o", "c">> -> Val(TimeInForceCode.IOC)
      [] ToLowerCase(str) = <<"a", "l", "o">> -> Val(TimeInForceCode.ALO)
      [] OTHER -> Undefined

\* C15: a time-in-force string equal to "gtc", "ioc" or "alo" in any letter
\* case maps to GTC, IOC or ALO and a missing one to GTC; every other string
\* raises the unsupported-time-in-force error and no envelope is produced.
C15_TifAnyCase ==
    (/\ pc = "built"
     /\ call.request.action.type = "order"
     /\ OrderOf(call.request.action).a.t # "undefined"
     /\ resolveMarket(OrderOf(call.request.action).a, config).ok
     /\ decimalToFixed(OrderOf(call.request.action).p, 0).ok
     /\ decimalToFixed(OrderOf(call.request.action).s, 0).ok) =>
        LET tif == TifNamed(Coalesce(OrderOf(call.request.action).tif,
                                     Val(<<"G", "t", "c">>)).v)
        IN  IF tif.t = "val"
            THEN /\ result.status.ok
                 /\ result.envelopes[1].action.tif = [type |-> tif.v]
            ELSE /\ ~result.status.ok
                 /\ result.status.err = "Unsupported time-in-force"
                 /\ result.envelopes = <<>>

-----------------------------------------------------------------------------
(* Claims about updateLeverage *)

\* C16: for every leverage of an updateLeverage request the SetLeverage
\* action's targetLeverageBps is an integer with 0 <= targetLeverageBps <= 65535.
C16_LeverageClamped ==
    (/\ pc = "built"
     /\ call.request.action.type = "updateLeverage"
     /\ result.status.ok) =>
        \A i \in 1..Len(result.envelopes) :
            /\ result.envelopes[i].action.type = PermitActionType.SetLeverage
            /\ result.envelopes[i].action.targetLeverageBps \in 0..65535

-----------------------------------------------------------------------------
(* Claims about market lookup *)

\* the market identifiers a request has the adapter look up, in order
Lookups(action) ==
    CASE action.type = "batchOrder" ->
            [i \in 1..Len(SubItems(action)) |-> SubItems(action)[i].a]
      [] action.type = "modifyBatch" ->
            [i \in 1..Len(SubItems(action)) |-> SubItems(action)[i].order.a]
      [] action.type = "cancel" ->
            [i \in 1..Len(SubItems(action)) |-> SubItems(action)[i].a]
      [] action.type = "cancelByCloid" ->
            [i \in 1..Len(SubItems(action)) |-> SubItems(action)[i].asset]
      [] action.type = "order" ->
            IF OrderOf(action).a.t = "undefined" THEN <<>>
            ELSE <<OrderOf(action).a>>
      [] OTHER ->
            IF action.asset.t = "undefined" THEN <<>> ELSE <<action.asset>>

\* a number that is the index, or a string that is the symbol, of a market
\* of the registry
Registered(identifier) ==
    \E k \in 1..Len(Markets) :
        identifier = Num(Markets[k].index) \/ identifier = Str(Markets[k].symbol)

\* a number or string that names no market of the registry
Unmatched(identifier) ==
    identifier.t \in {"number", "string"} /\ ~Registered(identifier)

\* the request cut down to its first n sub-items
FirstItems(exchangeRequest, n) ==
    CASE exchangeRequest.action.type = "batchOrder" ->
            [exchangeRequest EXCEPT
                !.action.orders = Val(SubSeq(SubItems(exchangeRequest.action), 1, n))]
      [] exchangeRequest.action.type = "modifyBatch" ->
            [exchangeRequest EXCEPT
                !.action.modifies = Val(SubSeq(SubItems(exchangeRequest.action), 1, n))]
      [] exchangeRequest.action.type \in {"cancel", "cancelByCloid"} ->
            [exchangeRequest EXCEPT
                !.action.cancels = Val(SubSeq(SubItems(exchangeRequest.action), 1, n))]
      [] OTHER -> [exchangeRequest EXCEPT !.action.type = "noop"]

\* C17: a market identifier is resolved by index when it is a number and by
\* symbol when it is a string; when an identifier matches no registered
\* market the call raises the unknown-market error and returns no envelope,
\* also when the sub-items before it were built successfully.
C17_UnknownMarket ==
    (/\ pc = "built"
     /\ call.request.action.type \in BatchKinds \cup {"order", "updateLeverage"}) =>
        LET ids == Lookups(call.request.action)
        IN  /\ ~result.status.ok => result.envelopes = <<>>
            /\ result.status.ok =>
                  /\ Len(result.envelopes) = Len(ids)
                  /\ \A i \in 1..Len(ids) :
                        /\ Registered(ids[i])
                        /\ result.envelopes[i].action.marketId
                              = BigInt(MarketNamed(ids[i]).marketId).v
            /\ \A i \in 1..Len(ids) :
                  (/\ Unmatched(ids[i])
                   /\ buildPermitEnvelopesFromExchangeRequest(
                         FirstItems(call.request, i - 1), config,
                         call.clock).status.ok) =>
                      /\ ~result.status.ok
                      /\ result.status.err
                            = (IF ids[i].t = "number" THEN "Unknown market index"
                               ELSE "Unknown market symbol")
                      /\ result.envelopes = <<>>

C17_Witness ==
    /\ pc = "built"
    /\ call.request.action.type = "batchOrder"
    /\ Len(SubItems(call.request.action)) = 2
    /\ Registered(SubItems(call.request.action)[1].a)
    /\ Unmatched(SubItems(call.request.action)[2].a)
    /\ buildPermitEnvelopesFromExchangeRequest(
          FirstItems(call.request, 1), config, call.clock).status.ok
    /\ Len(buildPermitEnvelopesFromExchangeRequest(
          FirstItems(call.request, 1), config, call.clock).envelopes) = 1
    /\ result.status = Throw("Unknown market index")
    /\ result.envelopes = <<>>

-----------------------------------------------------------------------------
(* Claims about values wider than their fields *)

\* the bigint a field holds, if it holds one
HeldBig(x) ==
    IF x \in {Null, Undefined} THEN Big(0)
    ELSE IF "t" \in DOMAIN x THEN x.v ELSE x

\* a non-negative bigint of at least 256^span
Beyond(x, span) == ~HeldBig(x).neg /\ BigLess(BigOf(FALSE, [i \in 1..span |-> 255]), HeldBig(x))

\* a numeric field of the envelope exceeds its declared width
ExceedsWidth(e) ==
    \/ \E name \in {"expiresUnix", "maxFeeQuote", "nonce"} : Beyond(e[name], 8)
    \/ \E name \in DOMAIN e.action \cap {"marketId", "qty", "price", "triggerPrice",
                                         "orderId", "cancelOrderId", "amount"} :
          Beyond(e.action[name], 8)
    \/ \E name \in DOMAIN e.action \cap {"clientId", "newClientId"} :
          Beyond(e.action[name], 16)
    \/ "targetLeverageBps" \in DOMAIN e.action /\ e.action.targetLeverageBps > 65535
    \/ "expected" \in DOMAIN e.mode /\ Beyond(e.mode.expected, 8)
    \/ "k" \in DOMAIN e.mode /\ e.mode.k > 255

-----------------------------------------------------------------------------
(* Claims about the envelopes of the adapter and the codec *)

\* a bigint in 0..256^span - 1
Within(x, span) == ~HeldBig(x).neg /\ Len(HeldBig(x).mag) <= span

\* C19: every envelope the adapter returns for a request it accepts is
\* encoded without error: qty, price and amount lie in 0..2^64-1, clientId
\* and newClientId in 0..2^128-1, and targetLeverageBps in 0..65535.
C19_EnvelopesEncodable ==
    (pc = "built" /\ result.status.ok) =>
        \A i \in 1..Len(result.envelopes) :
            /\ EncodeOutcome(result.envelopes[i]).ok
            /\ \A name \in DOMAIN result.envelopes[i].action
                              \cap {"qty", "price", "amount"} :
                  Within(result.envelopes[i].action[name], 8)
            /\ \A name \in DOMAIN result.envelopes[i].action
                              \cap {"clientId", "newClientId"} :
                  Within(result.envelopes[i].action[name], 16)
            /\ "targetLeverageBps" \in DOMAIN result.envelopes[i].action =>
                  result.envelopes[i].action.targetLeverageBps \in 0..65535

-----------------------------------------------------------------------------
(* Claims about what the calls leave of their arguments *)

\* the orders an action object holds, wherever its kind keeps them
HeldOrders(action) ==
    CASE action.type = "batchOrder" -> SubItems(action)
      [] action.type = "modifyBatch" ->
            [i \in 1..Len(SubItems(action)) |-> SubItems(action)[i].order]
      [] action.type = "modify" ->
            IF action.order.t = "val" THEN <<action.order.v>> ELSE <<>>
      [] action.type = "order" -> <<OrderOf(action)>>
      [] OTHER -> <<>>

\* the action object with the c of every order it holds taken out
WithoutClientIds(action) ==
    [action EXCEPT
        !.c = Undefined,
        !.order = IF @.t = "val" THEN Val([@.v EXCEPT !.c = Undefined]) ELSE @,
        !.orders = IF @.t = "val"
                   THEN Val([i \in 1..Len(@.v) |-> [@.v[i] EXCEPT !.c = Undefined]])
                   ELSE @,
        !.modifies = IF @.t = "val"
                     THEN Val([i \in 1..Len(@.v) |->
                                 [@.v[i] EXCEPT !.order.c = Undefined]])
                     ELSE @]

\* an order's c that is absent, empty or no integer for BigInt
LacksNumber(c) == c.t # "string" \/ c.s = <<>> \/ ~StringToBigInt(c.s).ok

\* the client id a Place or Modify action carries
CarriedClientId(permitAction) ==
    IF permitAction.type = PermitActionType.Modify THEN permitAction.newClientId
    ELSE permitAction.clientId

-----------------------------------------------------------------------------
(* Claims about signPermits *)

\* the bytes a lower-case hexadecimal text writes
BytesOfHex(text) ==
    [i \in 1..(Len(text) \div 2) |->
        16 * HexValue(text[2 * i - 1]) + HexValue(text[2 * i])]

\* the six bits a base64 character stands for, 0 for the padding
SixBits(ch) ==
    IF ch = "=" THEN 0 ELSE (CHOOSE k \in 1..64 : Base64Alphabet[k] = ch) - 1

\* the bytes a padded base64 text writes
BytesOfBase64(text) ==
    LET padding == Cardinality({i \in 1..Len(text) : text[i] = "="})
        Bits(i) == 262144 * SixBits(text[4 * i - 3]) + 4096 * SixBits(text[4 * i - 2])
                     + 64 * SixBits(text[4 * i - 1]) + SixBits(text[4 * i])
    IN  [j \in 1..(3 * (Len(text) \div 4) - padding) |->
            CASE j % 3 = 1 -> Bits((j + 2) \div 3) \div 65536
              [] j % 3 = 2 -> (Bits((j + 2) \div 3) \div 256) % 256
              [] OTHER -> Bits((j + 2) \div 3) % 256]

\* the bytes a text of the encoding writes
BytesOfText(text, encoding) ==
    IF encoding = "base64" THEN BytesOfBase64(text) ELSE BytesOfHex(text)

\* the envelopes a call of signPermits was given, as a list
GivenList(envelopes) ==
    IF "t" \in DOMAIN envelopes THEN envelopes.a ELSE <<envelopes>>

\* C21: signPermits returns signatureList, messageList, rawSignatures and
\* rawMessages of length n in input order, entry i being the signature over
\* and the encoding of envelope i, as bytes and in the requested text
\* encoding; signatures and messages are one string when n = 1, arrays of
\* length n when n >= 2 and empty arrays when n = 0.
C21_SignPermitsShape ==
    pc = "permitsSigned" =>
        LET list == GivenList(call.envelopes)
            n == Len(list)
            encoding == IF call.encoding = "base64" THEN "base64" ELSE "hex"
        IN  /\ Len(result.signatureList) = n /\ Len(result.messageList) = n
            /\ Len(result.rawSignatures) = n /\ Len(result.rawMessages) = n
            /\ \A i \in 1..n :
                  /\ result.rawMessages[i] = encodePermitEnvelope(list[i])
                  /\ Len(result.rawSignatures[i]) = 64
                  /\ naclVerify(oracle, result.rawMessages[i],
                                result.rawSignatures[i], KeyBytes(keypair.publicKey))
                  /\ BytesOfText(result.signatureList[i], encoding)
                        = result.rawSignatures[i]
                  /\ BytesOfText(result.messageList[i], encoding)
                        = result.rawMessages[i]
                  /\ Len(result.signatureList[i])
                        = (IF encoding = "hex" THEN 128 ELSE 88)
            /\ result.signatures
                  = (IF n = 1 THEN Str(result.signatureList[1])
                     ELSE Arr(result.signatureList))
            /\ result.messages
                  = (IF n = 1 THEN Str(result.messageList[1])
                     ELSE Arr(result.messageList))

C21_Witness ==
    /\ pc = "permitsSigned"
    /\ "t" \in DOMAIN call.envelopes
    /\ Len(call.envelopes.a) = 1
    /\ call.encoding = "base64"
    /\ result.signatures.t = "string"
    /\ result.messages = Str(result.messageList[1])
    /\ result.rawMessages = <<encodePermitEnvelope(call.envelopes.a[1])>>

-----------------------------------------------------------------------------
(* Claims about the program addresses and the instructions *)

\* a number of 0 .. 2^64 - 1 as eight bytes, least significant first
EightBytes(id) == [i \in 1..8 |-> IF i <= Len(id.mag) THEN id.mag[i] ELSE 0]

InUnsigned64(id) == ~id.neg /\ Len(id.mag) <= 8

\* the ordered seeds of a derivation: its label, then its components
SeedsOf(c) ==
    CASE c.pda = "sessionPda" ->
            <<BufferFrom(SessionLabel), KeyBytes(c.owner), KeyBytes(c.session)>>
      [] c.pda = "nonceWindowPda" ->
            <<BufferFrom(NonceWindowLabel), KeyBytes(c.signer)>>
      [] c.pda = "allowancePda" ->
            <<BufferFrom(AllowanceLabel), KeyBytes(c.owner),
              KeyBytes(c.authorizer), EightBytes(c.id)>>
      [] c.pda = "usedNoncePda" ->
            <<BufferFrom(UsedNonceLabel), KeyBytes(c.owner), c.salt>>
      [] c.pda = "perOrderPda" ->
            <<BufferFrom(OrderLabel), EightBytes(c.marketId), KeyBytes(c.user),
              EightBytes(c.orderId)>>

\* the ids of a derivation are numbers of 64 bits
IdsInRange(c) ==
    CASE c.pda = "allowancePda" -> InUnsigned64(c.id)
      [] c.pda = "perOrderPda" -> InUnsigned64(c.marketId) /\ InUnsigned64(c.orderId)
      [] OTHER -> TRUE

\* the address the seeds, a bump and the program give
AddressAt(c, bump) ==
    createProgramAddressSync(Append(SeedsOf(c), <<bump>>), c.programId)

SuppliedRecords(accounts) ==
    LET supplied(a) == a # Undefined
        records == SelectSeq(<<accounts.sessionPda, accounts.nonceWindowPda,
                               accounts.allowancePda, accounts.usedNoncePda>>,
                             supplied)
    IN  [i \in 1..Len(records) |-> records[i].v]

\* C23: createConsumePermitInstruction returns exactly two instructions:
\* the verification instruction at index 0, then the consumption instruction
\* with the 66 bytes [50][0][signature] and the accounts submitter (signer),
\* instructions sysvar, global state, collateral account, market, per-order
\* record, market order log, rent payer (signer), system program, followed by
\* exactly the supplied ones of the session, nonce-window, allowance and
\* used-nonce records, in that order.
C23_ConsumeInstructions ==
    pc = "consumeBuilt" =>
        LET a == call.accounts
            consume == result[2]
        IN  /\ Len(result) = 2
            /\ result[1] = permit.verifyInstruction
            /\ result[1].programId = "Ed25519Program"
            /\ consume.programId = call.programId
            /\ Len(consume.data) = 66
            /\ consume.data[1] = 50 /\ consume.data[2] = 0
            /\ SubSeq(consume.data, 3, 66) = permit.signature
            /\ [i \in 1..Len(consume.keys) |-> consume.keys[i].pubkey]
                  = <<a.submitter, "SysvarInstructions", a.global, a.cma, a.market,
                      a.perOrderPda, a.marketOrderLog, a.rentPayer, "SystemProgram">>
                        \o SuppliedRecords(a)
            /\ {i \in 1..Len(consume.keys) : consume.keys[i].isSigner} = {1, 8}

C23_Witness ==
    /\ pc = "consumeBuilt"
    /\ call.accounts.sessionPda # Undefined
    /\ call.accounts.nonceWindowPda = Undefined
    /\ call.accounts.allowancePda # Undefined
    /\ call.accounts.usedNoncePda = Undefined
    /\ Len(result[2].keys) = 11
    /\ result[2].keys[10].pubkey = call.accounts.sessionPda.v
    /\ result[2].keys[11].pubkey = call.accounts.allowancePda.v

\* a number is inside the signed 64-bit range
InSigned64(v) ==
    \/ BigLess(v, TwoTo63) /\ BigLess(BigNeg(TwoTo63), v)
    \/ v = BigNeg(TwoTo63)

\* a scope value is a union of the five flags or All
IsScope(scopes) == scopes = SessionScope.All \/ scopes \in {Big(n) : n \in 0..31}

\* C24: DelegateSession is [51][32-byte session key][expiresUnix i64 LE]
\* [scope u32 LE] (45 bytes), RevokeSession [52][32-byte key] (33 bytes),
\* CreateAllowance [53][32-byte authorizer][id i64 LE][maxUses u16 LE]
\* (43 bytes); every scope value, All and the unions of the five flags
\* included, is written unchanged into the 4-byte bitmask.
C24_DelegationLayouts ==
    /\ pc = "delegateBuilt" /\ InSigned64(call.expiresUnix) /\ IsScope(call.scopes) =>
          /\ result.ok
          /\ Len(result.v.data) = 45
          /\ result.v.data[1] = 51
          /\ SubSeq(result.v.data, 2, 33) = KeyBytes(call.session)
          /\ FromTwos(SubSeq(result.v.data, 34, 41)) = call.expiresUnix
          /\ BigOf(FALSE, SubSeq(result.v.data, 42, 45)) = call.scopes
    /\ pc = "revokeBuilt" =>
          /\ result.ok
          /\ result.v.data = <<52>> \o KeyBytes(call.session)
          /\ Len(result.v.data) = 33
    /\ pc = "allowanceBuilt" /\ InSigned64(call.id) /\ call.maxUses \in 0..65535 =>
          /\ result.ok
          /\ Len(result.v.data) = 43
          /\ result.v.data[1] = 53
          /\ SubSeq(result.v.data, 2, 33) = KeyBytes(call.authorizer)
          /\ FromTwos(SubSeq(result.v.data, 34, 41)) = call.id
          /\ result.v.data[42] + 256 * result.v.data[43] = call.maxUses

C24_Witness ==
    /\ pc = "delegateBuilt"
    /\ call.scopes = SessionScope.All
    /\ call.expiresUnix = Big(-1)
    /\ result.ok
    /\ SubSeq(result.v.data, 34, 45)
          = <<255, 255, 255, 255, 255, 255, 255, 255, 255, 255, 255, 255>>

-----------------------------------------------------------------------------
(* Claims about the Ambient client *)

\* C29: one call to orderWithDebug submits the order at most once: one HTTP
\* POST and one signed request (one nonce) per call, and the request body
\* returned is the body of that only submission.
C29_SubmittedOnce ==
    call # None /\ call.fn = "orderWithDebug" =>
        /\ Len(posted) <= 1
        /\ Len(call.nonces) <= 1
        /\ pc = "returned" /\ result.v.requestBody # EmptyObject =>
              posted = <<result.v.requestBody>>

\* the keypair a call signs with: the injected one if set, else the dev one
SignerOf(injected, devkeyData) ==
    IF injected # Null THEN injected
    ELSE IF devkeyData # Undefined THEN Val(Keypair(devkeyData.v))
    ELSE Null

\* a posted body carries one signature per envelope, made with the keypair
SignedBy(body, envelopes, kp) ==
    /\ Len(body.signature) = Len(envelopes)
    /\ \A i \in 1..Len(envelopes) :
          naclVerify(oracle, encodePermitEnvelope(envelopes[i]),
                     BytesOfHex(body.signature[i]), KeyBytes(kp.publicKey))

\* the value returned is an error status
IsErrorStatus(value) ==
    LET statuses == value.response.data.statuses
    IN  Len(statuses) = 1 /\ DOMAIN statuses[1] = {"error"}

\* C30: every request posted by exchClient.order, exchClient.cancel and
\* orderWithDebug carries a non-empty signature array with one signature per
\* envelope, made with the injected keypair if set and else the dev keypair;
\* when no keypair is available or the action yields no envelope, nothing is
\* posted and the call returns an error status instead of throwing.
C30_NeverUnsigned ==
    /\ pc \in {"orderPosted", "cancelPosted", "debugPosted", "debugOrderPosted"} =>
          /\ posted[Len(posted)].signature # <<>>
          /\ SignerOf(ambientKeypair, config.extra.solanaWalletPrivateKey) # Null
          /\ SignedBy(posted[Len(posted)], request.envelopes,
                      SignerOf(ambientKeypair, config.extra.solanaWalletPrivateKey).v)
    /\ pc = "returned" => result.ok
    /\ pc = "returned" /\ posted = <<>> =>
          /\ result.ok
          /\ IsErrorStatus(IF call.fn = "orderWithDebug" THEN result.v.mapped
                           ELSE result.v)

-----------------------------------------------------------------------------
(* Claims about the session provider and the order panel                   *)

\* C25: while the session is neither Established nor UpdatingLimits the
\* panel's request body, raw response and error are all null, also when an
\* order was in flight at the disconnect and completes afterwards
C25_DebugDataCleared ==
    (pc = "running" /\ ~isConnected(state)) =>
        /\ panel.requestBody = Null
        /\ panel.rawResponse = Null
        /\ panel.error = Null

\* C26: whenever the state is Established or UpdatingLimits the keypair the
\* Ambient client signs with is the session keypair of the state's session,
\* also when exporting the private key failed
C26_KeypairOfSession ==
    (pc = "running" /\ isConnected(state)) =>
        /\ ambientKeypair # Null
        /\ ambientKeypair.v = SessionKeypair(state.session)
        /\ ambientKeypair.v.publicKey = state.session

Transitional ==
    {StateType.Initializing, StateType.CreatingAdapter,
     StateType.WalletConnecting, StateType.EstablishingSession,
     StateType.CheckingStoredSession}

\* C27: every external call settling, the provider leaves each transitional
\* state and becomes NotEstablished or Established
C27_LeavesTransitional ==
    (state.type \in Transitional)
        ~> (state.type \in {StateType.NotEstablished, StateType.Established})

\* C28: once endSession has been invoked on an Established session the state
\* becomes NotEstablished, the storage write and the re-read completing
C28_EndSessionDisconnects ==
    (/\ state.type = StateType.Established
     /\ Task("persist", state.session) \in tasks)
        ~> (state.type = StateType.NotEstablished)

=============================================================================
